---- MODULE Spec2Model ----
(***************************************************************************)
(* A model of the caching, rate-limiting and rating-write core of the      *)
(* video server: VideoCache (src/cache_manager.py), VideoDatabase          *)
(* (src/database_migration.py), RatingsService                             *)
(* (src/backend/services/ratings_service.py), the POST /api/ratings        *)
(* handler (src/backend/app/api/ratings.py) and RateLimiter                *)
(* (src/backend/app/core/rate_limiter.py).                                 *)
(*                                                                         *)
(* Time is counted in ticks of 1/Res second; time.time() is `now`.         *)
(* Python dicts are functions whose domain is the set of keys present.     *)
(***************************************************************************)
EXTENDS Integers, Sequences, FiniteSets, TLC

VARIABLES
    use_database,    \* VideoCache.use_database, fixed at construction
    disk,            \* the video files present in video_dir
    db,              \* VideoCache.db: "VideoDatabase", "None", or "unset" before __init__
    now,             \* time.time(), in ticks
    store_ratings,   \* backend: ratings table / ratings.json
    store_views,     \* backend: views table / views.json
    store_favorites, \* backend: favorites table / favorites.json
    store_tags,      \* backend: video_tags table / tags.json
    _ratings,        \* VideoCache._ratings
    _views,          \* VideoCache._views
    _favorites,      \* VideoCache._favorites
    _tags,           \* VideoCache._tags: filename -> reference of a list object
    _popular_tags,   \* VideoCache._popular_tags: the ranking, a list of (tag, count)
    heap,            \* the list objects: reference -> list of tags
    held,            \* the value a caller holds from its last read
    _last_refresh,   \* VideoCache._last_refresh
    max_requests,    \* RateLimiter.max_requests
    window_seconds,  \* RateLimiter.window_seconds
    requests,        \* RateLimiter.requests: ip -> list of timestamps
    burst,           \* history: per ip, the calls made within one window of a fresh start
    admitted,        \* history: per ip, the timestamps admitted in the latest window
    store_videos,    \* backend: the filenames of the videos table
    ensured,         \* history: when _ensure_videos_in_database ran, the latest two times
    _video_list,     \* VideoCache._video_list
    _video_metadata, \* VideoCache._video_metadata: filename -> the record kept
    _lock,           \* VideoCache._lock: the thread holding it, or "none"
    readers,         \* per thread: where it stands in a cache read
    lock,            \* RateLimiter.lock: the thread holding it, or "none"
    workers,         \* per thread: where it stands in a RateLimiter call
    executing,       \* DatabaseSession.execute_with_retry: the locals of the call under way
    _metrics,        \* performance._metrics: "None", or the thread that made the instance
    _rate_limiter,   \* rate_limiter._rate_limiter: "None", or the thread that made the instance
    getting,         \* per thread: where it stands in get_metrics / get_rate_limiter
    route_samples,   \* PerformanceMetrics.route_samples: route key -> deque of samples
    global_samples,  \* PerformanceMetrics.global_samples
    ratings_post_latencies, \* PerformanceMetrics.ratings_post_latencies
    appended,        \* history: every sample stored, with the time it was stored
    recorders,       \* per thread: where it stands in record_endpoint_latency
    _SNAPSHOT_CACHE, \* performance_monitor._SNAPSHOT_CACHE: key -> (time, snapshot)
    perf_monitor,    \* cache_manager.perf_monitor: "monitor", or "None" when its import failed
    cache_hits,      \* PerformanceMetrics.cache_hits
    cache_misses,    \* PerformanceMetrics.cache_misses
    cache_stats,     \* PerformanceMonitor.cache_stats: hits, misses, total_requests
    ret              \* what the last operation returned or raised

cfgVars == <<use_database, disk, db>>
ratingVars == <<store_ratings, _ratings>>
viewVars == <<store_views, _views>>
favVars == <<store_favorites, _favorites>>
tagVars == <<store_tags, _tags, heap>>
tableVars == <<store_videos, ensured>>
listVars == <<tableVars, _video_list, _video_metadata>>
singletonVars == <<_metrics, _rate_limiter, getting>>
callVars == <<workers, executing, singletonVars>>
threadVars == <<_lock, readers, lock, callVars>>
sampleVars == <<route_samples, global_samples, ratings_post_latencies, appended>>
counterVars == <<cache_hits, cache_misses, cache_stats>>
metricVars == <<sampleVars, recorders, _SNAPSHOT_CACHE, perf_monitor, counterVars>>

cacheVars ==
    <<ratingVars, viewVars, favVars, tagVars, _popular_tags, listVars, held, _last_refresh>>
limiterCfg == <<max_requests, window_seconds>>
limiterVars == <<limiterCfg, requests, burst, admitted>>

vars == <<cfgVars, now, cacheVars, limiterVars, threadVars, metricVars, ret>>

(* What an operation of VideoCache never touches. *)
outsideCache == <<cfgVars, now, limiterVars, threadVars, metricVars>>

(* What a read of VideoCache never touches: all of that but the counters of
   hits and misses. *)
besideReads ==
    <<cfgVars, now, limiterVars, threadVars, sampleVars, recorders, _SNAPSHOT_CACHE,
      perf_monitor>>

----------------------------------------------------------------------------
(* Bounds of the model *)

Res == 2
StartTime == 2000
CacheHorizon == 350
MaxViews == 3
MaxTagLen == 2

(* Program constants *)

cache_ttl == 300
VideoListCap == 60

Ids == {"a", "b"}
Tags == {"#x", "#y"}
Threads == {"t1", "t2"}

(* a thread that is in no call *)
Idle == [pc |-> "idle"]

Min(x, y) == IF x <= y THEN x ELSE y
Max(x, y) == IF x >= y THEN x ELSE y

video_list_ttl == Min(VideoListCap, cache_ttl)

Categories == {"ratings", "views", "tags", "favorites", "video_list", "popular_tags"}

----------------------------------------------------------------------------
(* Python dict and list helpers *)

EmptyMap == [x \in {} |-> 0]
Put(m, k, v) == [x \in (DOMAIN m) \cup {k} |-> IF x = k THEN v ELSE m[x]]
Get(m, k, d) == IF k \in DOMAIN m THEN m[k] ELSE d
Without(m, k) == [x \in (DOMAIN m) \ {k} |-> m[x]]

Range(s) == {s[i] : i \in DOMAIN s}
Contains(s, x) == x \in Range(s)
Remove(s, x) == SelectSeq(s, LAMBDA y : y # x)

(* The duplicate-free lists over S *)
ListsOver(S) ==
    UNION {{s \in [1..n -> S] : \A i, j \in 1..n : i # j => s[i] # s[j]}
           : n \in 0..Cardinality(S)}

(* list with the repeated elements dropped, first occurrences kept *)
RECURSIVE Dedupe(_)
Dedupe(s) ==
    IF s = <<>> THEN <<>>
    ELSE LET front == Dedupe(SubSeq(s, 1, Len(s) - 1))
             last == s[Len(s)]
         IN  IF Contains(front, last) THEN front ELSE Append(front, last)

----------------------------------------------------------------------------
(* VideoCache._is_cache_valid *)

Ttl(cache_key) == IF cache_key = "video_list" THEN video_list_ttl ELSE cache_ttl

(* a validity check that takes an entry never refreshed for a fresh one *)
_is_cache_valid_ZeroFresh(cache_key) ==
    \/ _last_refresh[cache_key] = 0
    \/ (now - _last_refresh[cache_key]) < Ttl(cache_key) * Res

_is_cache_valid(cache_key) ==
    (now - _last_refresh[cache_key]) < Ttl(cache_key) * Res

Refreshed(lr, cache_key) == [lr EXCEPT ![cache_key] = now]
Zeroed(lr, cache_key) == [lr EXCEPT ![cache_key] = 0]

(* The shape of `ret`: the operation, its arguments, how it ended and what it
   returned. *)
Ret(op, id, value, outcome, result) ==
    [op |-> op, id |-> id, value |-> value, outcome |-> outcome, result |-> result]

NoHeld == [cat |-> "none", value |-> 0]

----------------------------------------------------------------------------
(* List objects.  A list of tags is an object: two dicts can hold the same
   list.  Refs is large enough for the lists of the dict of the cache, of the
   dict a caller holds and one list being built. *)

Refs == 1..(2 * Cardinality(Ids) + 1)

LiveRefs(tagmap, h) ==
    Range(tagmap) \cup (IF h.cat = "tags" THEN Range(h.value) ELSE {})

(* Unreferenced list objects are collected. *)
Collect(hp, tagmap, h) ==
    [r \in Refs |-> IF r \in LiveRefs(tagmap, h) THEN hp[r] ELSE <<>>]

FreeRefs(tagmap, h) == Refs \ LiveRefs(tagmap, h)

(* The content of a dict of lists *)
TagsValue(tagmap, hp) == [f \in DOMAIN tagmap |-> hp[tagmap[f]]]

(* A canonical choice of distinct free references for the keys of `content` *)
RECURSIVE AllocRefs(_, _)
AllocRefs(keys, free) ==
    IF keys = {} THEN EmptyMap
    ELSE LET k == CHOOSE x \in keys : TRUE
             r == CHOOSE x \in free : \A y \in free : x <= y
         IN  Put(AllocRefs(keys \ {k}, free \ {r}), k, r)

----------------------------------------------------------------------------
(* The backend (StoreAdapter).  One set of store_* variables stands for the
   tables of VideoDatabase when use_database holds and for the JSON files
   otherwise: the backend is chosen once, at construction.
     store_ratings, store_views : filename -> number
     store_tags                 : filename -> list of tags
     store_favorites            : JSON: the list of filenames;
                                  database: filename -> created_at (seconds) *)

(* ratings.rating INTEGER CHECK (rating >= 1 AND rating <= 5) *)
db_check_rating(rating) == rating >= 1 /\ rating <= 5

(* VideoDatabase.update_rating: INSERT OR REPLACE INTO ratings *)
db_update_rating(filename, rating) == Put(store_ratings, filename, rating)

(* VideoDatabase.increment_view_count: the UPSERT and the count it returns *)
db_increment_view_count(filename) == Get(store_views, filename, 0) + 1

(* VideoDatabase.toggle_favorite on the favorites table `fav` *)
db_toggle_favorite(fav, filename) ==
    IF filename \in DOMAIN fav THEN Without(fav, filename)
    ELSE Put(fav, filename, now \div Res)

(* VideoDatabase.get_favorites: ORDER BY created_at DESC; rows of the same
   second come in an order SQL leaves open. *)
db_get_favorites(fav) ==
    {s \in ListsOver(DOMAIN fav) :
        /\ Len(s) = Cardinality(DOMAIN fav)
        /\ \A i, j \in 1..Len(s) : i < j => fav[s[i]] >= fav[s[j]]}

(* VideoDatabase.get_video_tags, remove_tag, add_tag on the rows of one file;
   UNIQUE(filename, tag) with INSERT OR IGNORE keeps the first of equal tags *)
db_remove_tag(rows, tag) == Remove(rows, tag)
db_add_tag(rows, tag) == IF Contains(rows, tag) THEN rows ELSE Append(rows, tag)

(* VideoDatabase.get_ratings_map / get_views_map / get_tags_map: the table as
   a dict (a file without tag rows has no key). *)
get_ratings_map == store_ratings
get_views_map == store_views
get_tags_map == [f \in {g \in DOMAIN store_tags : store_tags[g] # <<>>} |-> store_tags[f]]

(* a load that finds no file *)
load_views_file_Missing == EmptyMap

(* VideoCache._load_json_file on ratings.json, views.json, tags.json and
   favorites.json *)
load_ratings_file == store_ratings
load_views_file == store_views
load_tags_file == store_tags
load_favorites_file == store_favorites

(* The first n of the database calls `ops` (<<"remove"|"add", tag>>) of
   update_tags applied to the rows of one file *)
RECURSIVE ApplyTagOps(_, _, _)
ApplyTagOps(rows, ops, n) ==
    IF n = 0 \/ ops = <<>> THEN rows
    ELSE ApplyTagOps(IF ops[1][1] = "remove" THEN db_remove_tag(rows, ops[1][2])
                                             ELSE db_add_tag(rows, ops[1][2]),
                     Tail(ops), n - 1)

(* The first n of the toggles `ops` of update_favorites *)
RECURSIVE ApplyToggles(_, _, _)
ApplyToggles(fav, ops, n) ==
    IF n = 0 \/ ops = <<>> THEN fav
    ELSE ApplyToggles(db_toggle_favorite(fav, ops[1]), Tail(ops), n - 1)

----------------------------------------------------------------------------
(* VideoCache reads.  The whole body of each runs under self._lock, and each
   returns a copy of the container. *)

(* The end of every category read: `if perf_monitor:` then
   perf_monitor.record_cache_hit() if was_valid, else record_cache_miss().
   PerformanceMonitor counts in cache_stats and passes the call on to
   PerformanceMetrics.  `valids` are the was_valid of the category reads an
   operation makes, in their order. *)
HitsOf(valids) == Len(SelectSeq(valids, LAMBDA was_valid : was_valid))
MissesOf(valids) == Len(valids) - HitsOf(valids)

Counted(valids) ==
    IF perf_monitor = "None" THEN UNCHANGED counterVars
    ELSE /\ cache_stats' =
               [hits |-> cache_stats.hits + HitsOf(valids),
                misses |-> cache_stats.misses + MissesOf(valids),
                total_requests |-> cache_stats.total_requests + Len(valids)]
         /\ cache_hits' = cache_hits + HitsOf(valids)
         /\ cache_misses' = cache_misses + MissesOf(valids)

(* (hits / total * 100) if total else 0.0, as the fraction num / den *)
HitRate(hits, total) ==
    IF total = 0 THEN [num |-> 0, den |-> 1] ELSE [num |-> hits * 100, den |-> total]

(* PerformanceMetrics.get_cache_hit_rate *)
metrics_get_cache_hit_rate ==
    /\ ret' = Ret("metrics_get_cache_hit_rate", "", 0, "ok",
                  HitRate(cache_hits, cache_hits + cache_misses))
    /\ UNCHANGED <<outsideCache, cacheVars>>

(* PerformanceMonitor.get_cache_hit_rate *)
monitor_get_cache_hit_rate ==
    /\ ret' = Ret("monitor_get_cache_hit_rate", "", 0, "ok",
                  HitRate(cache_stats.hits, cache_stats.total_requests))
    /\ UNCHANGED <<outsideCache, cacheVars>>

(* PerformanceMonitor.reset_stats: the dict of the monitor starts again, the
   counters of PerformanceMetrics are not touched *)
reset_stats ==
    /\ cache_stats' = [hits |-> 0, misses |-> 0, total_requests |-> 0]
    /\ ret' = Ret("reset_stats", "", 0, "ok", 0)
    /\ UNCHANGED <<besideReads, cache_hits, cache_misses, cacheVars>>

(* what a stale read loads, by backend *)
LoadRatings == IF use_database THEN get_ratings_map ELSE load_ratings_file
LoadViews == IF use_database THEN get_views_map ELSE load_views_file
LoadTags == IF use_database THEN get_tags_map ELSE load_tags_file
LoadFavorites ==
    IF use_database THEN db_get_favorites(store_favorites)
    ELSE {load_favorites_file}

get_ratings ==
    /\ IF _is_cache_valid("ratings")
          THEN UNCHANGED <<_ratings, _last_refresh>>
          ELSE /\ _ratings' = LoadRatings
               /\ _last_refresh' = Refreshed(_last_refresh, "ratings")
    /\ Counted(<<_is_cache_valid("ratings")>>)
    /\ ret' = Ret("get_ratings", "", 0, "ok", _ratings')
    /\ UNCHANGED <<besideReads, listVars, _popular_tags, store_ratings, viewVars,
                   favVars, tagVars, held>>

get_views ==
    /\ IF _is_cache_valid("views")
          THEN UNCHANGED <<_views, _last_refresh>>
          ELSE /\ _views' = LoadViews
               /\ _last_refresh' = Refreshed(_last_refresh, "views")
    /\ Counted(<<_is_cache_valid("views")>>)
    /\ ret' = Ret("get_views", "", 0, "ok", _views')
    /\ UNCHANGED <<besideReads, listVars, _popular_tags, store_views, ratingVars,
                   favVars, tagVars, held>>

get_favorites ==
    /\ IF _is_cache_valid("favorites")
          THEN UNCHANGED <<_favorites, _last_refresh>>
          ELSE /\ _favorites' \in LoadFavorites
               /\ _last_refresh' = Refreshed(_last_refresh, "favorites")
    /\ Counted(<<_is_cache_valid("favorites")>>)
    /\ ret' = Ret("get_favorites", "", 0, "ok", _favorites')
    /\ UNCHANGED <<besideReads, listVars, _popular_tags, store_favorites, ratingVars,
                   viewVars, tagVars, held>>

(* get_tags returns self._tags.copy(): a new dict holding the same lists.
   The caller's variable takes the new dict. *)
get_tags ==
    /\ IF _is_cache_valid("tags")
          THEN UNCHANGED <<_tags, _last_refresh>>
          ELSE /\ _tags' = AllocRefs(DOMAIN LoadTags, Refs)
               /\ _last_refresh' = Refreshed(_last_refresh, "tags")
    /\ held' = [cat |-> "tags", value |-> _tags']
    /\ heap' = IF _is_cache_valid("tags")
               THEN Collect(heap, _tags', held')
               ELSE [r \in Refs |->
                        IF \E f \in DOMAIN _tags' : _tags'[f] = r
                        THEN LoadTags[CHOOSE f \in DOMAIN _tags' : _tags'[f] = r]
                        ELSE <<>>]
    /\ Counted(<<_is_cache_valid("tags")>>)
    /\ ret' = Ret("get_tags", "", 0, "ok", TagsValue(_tags', heap'))
    /\ UNCHANGED <<besideReads, listVars, _popular_tags, store_tags, ratingVars,
                   viewVars, favVars>>

----------------------------------------------------------------------------
(* VideoCache writes.  `fail`: the backend write raises (database locked,
   disk full).  `done`: how many of the backend calls of the operation complete
   before one raises; the operation succeeds when all of them do. *)

(* update_rating: the dict is patched first, then the backend is written. *)
update_rating(filename, rating, fail) ==
    LET patched == Put(_ratings, filename, rating)
        outcome == IF fail THEN "BackendError"
                   ELSE IF use_database /\ ~db_check_rating(rating)
                        THEN "IntegrityError"
                   ELSE "ok"
    IN  /\ _ratings' = patched
        /\ store_ratings' = (IF outcome # "ok" THEN store_ratings
                             ELSE IF use_database
                                  THEN db_update_rating(filename, rating)
                                  ELSE patched)
        /\ ret' = Ret("update_rating", filename, rating, outcome, 0)
        /\ UNCHANGED <<outsideCache, listVars, _popular_tags, viewVars, favVars,
                       tagVars, held, _last_refresh>>

(* update_view: the database increments and the dict takes the new count;
   on JSON the dict is incremented and the whole dict is saved. *)
update_view(filename, fail) ==
    /\ IF use_database
       THEN LET new_count == db_increment_view_count(filename)
            IN  /\ new_count <= MaxViews
                /\ IF fail
                     THEN /\ UNCHANGED <<store_views, _views>>
                          /\ ret' = Ret("update_view", filename, 0, "BackendError", 0)
                     ELSE /\ store_views' = Put(store_views, filename, new_count)
                          /\ _views' = Put(_views, filename, new_count)
                          /\ ret' = Ret("update_view", filename, 0, "ok", new_count)
       ELSE LET current_views == Get(_views, filename, 0) + 1
                patched == Put(_views, filename, current_views)
            IN  /\ current_views <= MaxViews
                /\ _views' = patched
                /\ IF fail
                     THEN /\ UNCHANGED store_views
                          /\ ret' = Ret("update_view", filename, 0, "BackendError", 0)
                     ELSE /\ store_views' = patched
                          /\ ret' = Ret("update_view", filename, 0, "ok", current_views)
    /\ UNCHANGED <<outsideCache, listVars, _popular_tags, ratingVars, favVars, tagVars,
                   held, _last_refresh>>

(* the tags of Tags in the order ORDER BY tag gives *)
TagOrder == <<"#X", "#x", "#y">>
SortTags(rows) == SelectSeq(TagOrder, LAMBDA t : Contains(rows, t))

(* update_tags(filename, tags), `tags` being the list object r of the heap hp.
   The dict takes the caller's list itself. *)
UpdateTags(filename, r, hp, done) ==
    LET tagmap == Put(_tags, filename, r)
        tags == hp[r]
        rows == Get(store_tags, filename, <<>>)
        existing_tags == SortTags(rows)
        ops == [i \in 1..Len(existing_tags) |-> <<"remove", existing_tags[i]>>]
               \o [i \in 1..Len(tags) |-> <<"add", tags[i]>>]
        total == IF use_database THEN 1 + Len(ops) ELSE 1
        ok == done = total
    IN  /\ done <= total
        /\ _tags' = tagmap
        /\ heap' = Collect(hp, tagmap, held)
        /\ store_tags' =
              (IF use_database
               THEN IF done = 0 THEN store_tags
                    ELSE Put(store_tags, filename, ApplyTagOps(rows, ops, done - 1))
               ELSE IF ok THEN TagsValue(tagmap, hp) ELSE store_tags)
        /\ _last_refresh' = (IF ok THEN Zeroed(_last_refresh, "popular_tags")
                                   ELSE _last_refresh)
        /\ _popular_tags' = (IF ok THEN <<>> ELSE _popular_tags)
        /\ ret' = Ret("update_tags", filename, 0,
                      IF ok THEN "ok" ELSE "BackendError", 0)
        /\ UNCHANGED <<outsideCache, listVars, ratingVars, viewVars, favVars, held>>

(* the caller passes a list it took from the dict a read returned *)
update_tags_held(filename, done) ==
    /\ held.cat = "tags"
    /\ filename \in DOMAIN held.value
    /\ UpdateTags(filename, held.value[filename], heap, done)

(* the caller passes a list it built *)
update_tags_new(filename, tags, done) ==
    LET r == CHOOSE x \in FreeRefs(_tags, held) :
                 \A y \in FreeRefs(_tags, held) : x <= y
    IN  UpdateTags(filename, r, [heap EXCEPT ![r] = tags], done)

(* update_favorites(favorites): the list is taken, then the backend is brought
   to it: one save on JSON, a read and one toggle per difference on the
   database. *)
update_favorites(favorites, done) ==
    /\ _favorites' = favorites
    /\ IF use_database
       THEN \E current_favorites \in db_get_favorites(store_favorites) :
              LET ops == SelectSeq(current_favorites,
                                   LAMBDA f : ~Contains(favorites, f))
                         \o SelectSeq(favorites,
                                   LAMBDA f : ~Contains(current_favorites, f))
                  total == 1 + Len(ops)
              IN  /\ done <= total
                  /\ store_favorites' =
                        (IF done = 0 THEN store_favorites
                         ELSE ApplyToggles(store_favorites, ops, done - 1))
                  /\ ret' = Ret("update_favorites", "", favorites,
                                IF done = total THEN "ok" ELSE "BackendError", 0)
       ELSE /\ done <= 1
            /\ store_favorites' = (IF done = 1 THEN favorites ELSE store_favorites)
            /\ ret' = Ret("update_favorites", "", favorites,
                          IF done = 1 THEN "ok" ELSE "BackendError", 0)
    /\ UNCHANGED <<outsideCache, listVars, _popular_tags, ratingVars, viewVars,
                   tagVars, held, _last_refresh>>

----------------------------------------------------------------------------
(* VideoCache invalidation *)

invalidate_ratings ==
    /\ _last_refresh' = Zeroed(_last_refresh, "ratings")
    /\ _ratings' = EmptyMap
    /\ ret' = Ret("invalidate_ratings", "", 0, "ok", 0)
    /\ UNCHANGED <<outsideCache, listVars, _popular_tags, store_ratings, viewVars,
                   favVars, tagVars, held>>

invalidate_views ==
    /\ _last_refresh' = Zeroed(_last_refresh, "views")
    /\ _views' = EmptyMap
    /\ ret' = Ret("invalidate_views", "", 0, "ok", 0)
    /\ UNCHANGED <<outsideCache, listVars, _popular_tags, store_views, ratingVars,
                   favVars, tagVars, held>>

invalidate_tags ==
    /\ _last_refresh' = Zeroed(_last_refresh, "tags")
    /\ _tags' = EmptyMap
    /\ heap' = Collect(heap, EmptyMap, held)
    /\ ret' = Ret("invalidate_tags", "", 0, "ok", 0)
    /\ UNCHANGED <<outsideCache, listVars, _popular_tags, store_tags, ratingVars,
                   viewVars, favVars, held>>

invalidate_favorites ==
    /\ _last_refresh' = Zeroed(_last_refresh, "favorites")
    /\ _favorites' = <<>>
    /\ ret' = Ret("invalidate_favorites", "", 0, "ok", 0)
    /\ UNCHANGED <<outsideCache, listVars, _popular_tags, store_favorites, ratingVars,
                   viewVars, tagVars, held>>

(* _scan_video_directory: os.listdir gives the files in an order of its own *)
_scan_video_directory == {s \in ListsOver(disk) : Range(s) = disk}

(* the ids in the order ORDER BY filename gives *)
IdOrder == <<"a", "b">>
SortIds(S) == SelectSeq(IdOrder, LAMBDA f : f \in S)

(* _ensure_videos_in_database: the videos table is brought to the files on
   disk, new files added and missing files deleted *)
_ensure_videos_in_database == IF use_database THEN disk ELSE store_videos

db_get_all_filenames(videos) == SortIds(videos)

(* the lists a reload of the video list may produce *)
LoadVideoList ==
    IF use_database THEN {db_get_all_filenames(_ensure_videos_in_database)}
    ELSE _scan_video_directory

(* history: _ensure_videos_in_database runs now, unless it returns at its
   first line because there is no database *)
Ensured ==
    IF use_database
    THEN SubSeq(Append(ensured, now), Max(1, Len(ensured)), Len(ensured) + 1)
    ELSE ensured

(* for video in removed_videos: self._video_metadata.pop(video, None) *)
PoppedMetadata(old_list, current_videos) ==
    [f \in DOMAIN _video_metadata \ (Range(old_list) \ Range(current_videos))
        |-> _video_metadata[f]]

get_video_list ==
    /\ IF _is_cache_valid("video_list")
          THEN UNCHANGED <<listVars, _last_refresh>>
          ELSE /\ store_videos' = _ensure_videos_in_database
               /\ ensured' = Ensured
               /\ _video_list' \in LoadVideoList
               /\ _video_metadata' = PoppedMetadata(_video_list, _video_list')
               /\ _last_refresh' = Refreshed(_last_refresh, "video_list")
    /\ Counted(<<_is_cache_valid("video_list")>>)
    /\ ret' = Ret("get_video_list", "", 0, "ok", _video_list')
    /\ UNCHANGED <<besideReads, _popular_tags, ratingVars, viewVars, favVars, tagVars,
                   held>>

invalidate_video_list ==
    /\ _last_refresh' = Zeroed(_last_refresh, "video_list")
    /\ _video_list' = <<>>
    /\ ret' = Ret("invalidate_video_list", "", 0, "ok", 0)
    /\ UNCHANGED <<outsideCache, tableVars, _video_metadata, _popular_tags, ratingVars, viewVars,
                   favVars, tagVars, held>>

(* how often a tag occurs in the lists of a dict of lists *)
TagCount(tv, tag) ==
    Cardinality({p \in {<<f, i>> : f \in DOMAIN tv, i \in 1..MaxTagLen} :
                    p[2] <= Len(tv[p[1]]) /\ tv[p[1]][p[2]] = tag})

(* the rankings of the tags of tv by count, most used first; tags used equally
   often come in an order that depends on the dict and the query *)
PopularRankings(tv) ==
    LET used == {tag \in Tags : TagCount(tv, tag) > 0}
    IN  {[i \in 1..Len(s) |-> [tag |-> s[i], count |-> TagCount(tv, s[i])]]
           : s \in {o \in ListsOver(used) :
                       /\ Len(o) = Cardinality(used)
                       /\ \A i, j \in 1..Len(o) :
                              i < j => TagCount(tv, o[i]) >= TagCount(tv, o[j])}}

(* refresh_all: every timestamp is zeroed and every category is read again,
   the values read being dropped: get_ratings, get_views, get_tags,
   get_popular_tags (which calls get_tags once more on the flat-file
   backend), get_favorites, get_video_list. *)
refresh_all ==
    LET free == Refs \ LiveRefs(EmptyMap, held)
        tagmap == AllocRefs(DOMAIN LoadTags, free)
    IN  /\ _ratings' = LoadRatings
        /\ _views' = LoadViews
        /\ _favorites' \in LoadFavorites
        /\ _tags' = tagmap
        /\ heap' = [r \in Refs |->
                       IF \E f \in DOMAIN tagmap : tagmap[f] = r
                       THEN LoadTags[CHOOSE f \in DOMAIN tagmap : tagmap[f] = r]
                       ELSE IF r \in LiveRefs(EmptyMap, held) THEN heap[r]
                       ELSE <<>>]
        /\ _popular_tags' \in PopularRankings(LoadTags)
        /\ store_videos' = _ensure_videos_in_database
        /\ ensured' = Ensured
        /\ _video_list' \in LoadVideoList
        /\ _video_metadata' = EmptyMap
        /\ _last_refresh' = [c \in Categories |-> now]
        /\ Counted(<<FALSE, FALSE, FALSE>>
                   \o (IF use_database THEN <<>> ELSE <<0 < Ttl("tags") * Res>>)
                   \o <<FALSE, FALSE>>)
        /\ ret' = Ret("refresh_all", "", 0, "ok", 0)
        /\ UNCHANGED <<besideReads, store_ratings, store_views, store_favorites,
                       store_tags, held>>

----------------------------------------------------------------------------
(* Popular tags (src/cache_manager.py) and the Cache / WriteThrough wrappers
   (src/backend/app/core/cache.py) *)

invalidate_popular_tags ==
    /\ _last_refresh' = Zeroed(_last_refresh, "popular_tags")
    /\ _popular_tags' = <<>>
    /\ ret' = Ret("invalidate_popular_tags", "", 0, "ok", 0)
    /\ UNCHANGED <<outsideCache, listVars, ratingVars, viewVars, favVars, tagVars, held>>

(* get_popular_tags() with a limit that the ranking kept in memory covers:
   a stale ranking is fetched from the database, or counted from what
   self.get_tags() returns on the flat-file backend, which reloads the tags
   when they are stale *)
get_popular_tags ==
    LET free == Refs \ LiveRefs(EmptyMap, held)
        tagmap == AllocRefs(DOMAIN LoadTags, free)
        reload == ~use_database /\ ~_is_cache_valid("popular_tags")
                     /\ ~_is_cache_valid("tags")
    IN  /\ IF _is_cache_valid("popular_tags")
           THEN UNCHANGED <<_popular_tags, _last_refresh>>
           ELSE /\ _popular_tags' \in
                      PopularRankings(IF use_database \/ reload THEN LoadTags
                                      ELSE TagsValue(_tags, heap))
                /\ _last_refresh' =
                      [c \in Categories |->
                          IF c = "popular_tags" \/ (c = "tags" /\ reload) THEN now
                          ELSE _last_refresh[c]]
        /\ IF reload
           THEN /\ _tags' = tagmap
                /\ heap' = [r \in Refs |->
                               IF \E f \in DOMAIN tagmap : tagmap[f] = r
                               THEN LoadTags[CHOOSE f \in DOMAIN tagmap : tagmap[f] = r]
                               ELSE IF r \in LiveRefs(EmptyMap, held) THEN heap[r]
                               ELSE <<>>]
           ELSE UNCHANGED <<_tags, heap>>
        /\ Counted(IF ~use_database /\ ~_is_cache_valid("popular_tags")
                   THEN <<_is_cache_valid("tags")>> ELSE <<>>)
        /\ ret' = Ret("get_popular_tags", "", 0, "ok", _popular_tags')
        /\ UNCHANGED <<besideReads, listVars, ratingVars, viewVars, favVars, store_tags,
                       held>>

(* the categories Cache.invalidate and Cache.invalidate_all pass on *)
Wrapped == {"ratings", "views", "tags", "favorites"}

(* if key == "ratings": ... elif key == "favorites": ... *)
Passes(key) == key \in Wrapped

(* the VideoCache after backend.invalidate_<key>() for the keys of `keys`
   that the wrapper passes on *)
Invalidated(keys) ==
    LET hit(key) == key \in keys /\ Passes(key)
    IN  /\ _ratings' = (IF hit("ratings") THEN EmptyMap ELSE _ratings)
        /\ _views' = (IF hit("views") THEN EmptyMap ELSE _views)
        /\ _tags' = (IF hit("tags") THEN EmptyMap ELSE _tags)
        /\ heap' = (IF hit("tags") THEN Collect(heap, EmptyMap, held) ELSE heap)
        /\ _favorites' = (IF hit("favorites") THEN <<>> ELSE _favorites)
        /\ _video_list' = (IF hit("video_list") THEN <<>> ELSE _video_list)
        /\ _popular_tags' = (IF hit("popular_tags") THEN <<>> ELSE _popular_tags)
        /\ _last_refresh' = [c \in Categories |->
                                IF hit(c) THEN 0 ELSE _last_refresh[c]]

(* Cache.invalidate(key) *)
Cache_invalidate(key) ==
    /\ Invalidated({key})
    /\ ret' = Ret("Cache.invalidate", key, 0, "ok", 0)
    /\ UNCHANGED <<outsideCache, store_ratings, store_views, store_tags,
                   store_favorites, tableVars, _video_metadata, held>>

(* Cache.invalidate_all() *)
Cache_invalidate_all ==
    /\ Invalidated(Categories)
    /\ ret' = Ret("Cache.invalidate_all", "", 0, "ok", 0)
    /\ UNCHANGED <<outsideCache, store_ratings, store_views, store_tags,
                   store_favorites, tableVars, _video_metadata, held>>

(* WriteThrough.write_tag(media_hash, tag): the handler has added the tag row
   to the backend; write_tag is self.cache.invalidate("tags") *)
write_tag(media_hash, tag) ==
    /\ Len(Get(store_tags, media_hash, <<>>)) < MaxTagLen
    /\ store_tags' = Put(store_tags, media_hash,
                         db_add_tag(Get(store_tags, media_hash, <<>>), tag))
    /\ Invalidated({"tags"})
    /\ ret' = Ret("write_tag", media_hash, tag, "ok", 0)
    /\ UNCHANGED <<outsideCache, store_ratings, store_views, store_favorites,
                   tableVars, _video_metadata, held>>

----------------------------------------------------------------------------
(* Two VideoCaches over the same data, one on each backend, given the same
   calls at one instant (src/cache_manager.py, ratings and views). *)

(* a VideoCache on the backend use_db that holds the data of this one *)
CacheOn(use_db) ==
    [use_database |-> use_db,
     store_ratings |-> store_ratings, _ratings |-> _ratings,
     store_views |-> store_views, _views |-> _views,
     _last_refresh |-> _last_refresh]

(* the effect of one call on the cache c at time t, and what it returns;
   no backend call fails *)
Call(c, call, t) ==
    LET op == call[1]
        filename == call[2]
        valid(key) == (t - c._last_refresh[key]) < Ttl(key) * Res
    IN  CASE op = "get_ratings" ->
               LET m == IF valid("ratings") THEN c._ratings ELSE c.store_ratings
               IN  [cache |-> [c EXCEPT !._ratings = m,
                                        !._last_refresh["ratings"] =
                                            IF valid("ratings") THEN @ ELSE t],
                    result |-> <<"ok", m>>]
          [] op = "get_views" ->
               LET m == IF valid("views") THEN c._views ELSE c.store_views
               IN  [cache |-> [c EXCEPT !._views = m,
                                        !._last_refresh["views"] =
                                            IF valid("views") THEN @ ELSE t],
                    result |-> <<"ok", m>>]
          [] op = "update_rating" ->
               LET patched == Put(c._ratings, filename, call[3])
               IN  IF c.use_database
                   THEN IF db_check_rating(call[3])
                        THEN [cache |-> [c EXCEPT !._ratings = patched,
                                                  !.store_ratings =
                                                      Put(@, filename, call[3])],
                              result |-> <<"ok", 0>>]
                        ELSE [cache |-> [c EXCEPT !._ratings = patched],
                              result |-> <<"IntegrityError", 0>>]
                   ELSE [cache |-> [c EXCEPT !._ratings = patched,
                                             !.store_ratings = patched],
                         result |-> <<"ok", 0>>]
          [] op = "update_view" ->
               IF c.use_database
               THEN LET new_count == Get(c.store_views, filename, 0) + 1
                    IN  [cache |-> [c EXCEPT !.store_views = Put(@, filename, new_count),
                                             !._views = Put(@, filename, new_count)],
                         result |-> <<"ok", new_count>>]
               ELSE LET current_views == Get(c._views, filename, 0) + 1
                        patched == Put(c._views, filename, current_views)
                    IN  [cache |-> [c EXCEPT !._views = patched,
                                             !.store_views = patched],
                         result |-> <<"ok", current_views>>]
          [] op = "invalidate_ratings" ->
               [cache |-> [c EXCEPT !._ratings = EmptyMap,
                                    !._last_refresh["ratings"] = 0],
                result |-> <<"ok", 0>>]
          [] op = "invalidate_views" ->
               [cache |-> [c EXCEPT !._views = EmptyMap,
                                    !._last_refresh["views"] = 0],
                result |-> <<"ok", 0>>]

(* what the calls return, one after the other *)
RECURSIVE Returns(_, _, _)
Returns(c, calls, t) ==
    IF calls = <<>> THEN <<>>
    ELSE LET r == Call(c, Head(calls), t)
         IN  <<r.result>> \o Returns(r.cache, Tail(calls), t)

(* the same calls are given to a flat-file and to a relational VideoCache *)
call_both(calls) ==
    /\ ret' = Ret("call_both", "", calls, "ok",
                  [flat |-> Returns(CacheOn(FALSE), calls, now),
                   relational |-> Returns(CacheOn(TRUE), calls, now)])
    /\ UNCHANGED <<cfgVars, now, cacheVars, limiterVars, threadVars, metricVars>>

----------------------------------------------------------------------------
(* VideoCache.__init__ (src/cache_manager.py, lines 42-90) *)

(* how VideoDatabase() can end: with a database object, or raising; sqlite3
   errors are not OSError *)
InitFailures ==
    {"none", "ImportError", "OSError", "sqlite3.OperationalError",
     "sqlite3.DatabaseError"}

(* except (ImportError, OSError) as e: *)
Caught(failure) == failure \in {"ImportError", "OSError"}

(* __init__ up to the choice of the backend; an exception that is not caught
   leaves no VideoCache behind *)
init_backend(requested, DATABASE_AVAILABLE, failure) ==
    /\ db = "unset"
    /\ ret.op = "init"
    /\ IF ~(requested /\ DATABASE_AVAILABLE)
       THEN /\ use_database' = FALSE
            /\ db' = "None"
            /\ ret' = Ret("init_backend", "", "none", "ok", 0)
       ELSE IF failure = "none"
       THEN /\ use_database' = TRUE
            /\ db' = "VideoDatabase"
            /\ ret' = Ret("init_backend", "", failure, "ok", 0)
       ELSE IF Caught(failure)
       THEN /\ use_database' = FALSE
            /\ db' = "None"
            /\ ret' = Ret("init_backend", "", failure, "ok", 0)
       ELSE /\ ret' = Ret("init_backend", "", failure, failure, 0)
            /\ UNCHANGED <<use_database, db>>
    /\ UNCHANGED <<disk, now, cacheVars, limiterVars, threadVars, metricVars>>

(* the rest of __init__: self.refresh_all() *)
init_refresh ==
    /\ ret.op = "init_backend"
    /\ ret.outcome = "ok"
    /\ refresh_all

(* the rest of __init__ under LVS_SKIP_INIT_REFRESH: nothing is loaded *)
init_skip_refresh ==
    /\ ret.op = "init_backend"
    /\ ret.outcome = "ok"
    /\ _last_refresh' = [c \in Categories |-> 0]
    /\ ret' = Ret("init_skip_refresh", "", 0, "ok", 0)
    /\ UNCHANGED <<outsideCache, listVars, _popular_tags, ratingVars, viewVars, favVars,
                   tagVars, held>>

(* __init__ has returned a VideoCache *)
Constructed == db # "unset" /\ ret.op # "init_backend"

----------------------------------------------------------------------------
(* The caller of a read changes what the read returned. *)

(* route add_tag: current_tags = all_tags.get(filename, []); append *)
client_append(filename, tag) ==
    /\ held.cat = "tags"
    /\ filename \in DOMAIN held.value
    /\ Len(heap[held.value[filename]]) < MaxTagLen
    /\ heap' = [heap EXCEPT ![held.value[filename]] = Append(@, tag)]
    /\ ret' = Ret("client_mutate", filename, 0, "ok", 0)
    /\ UNCHANGED <<outsideCache, listVars, _popular_tags, ratingVars, viewVars,
                   favVars, store_tags, _tags,
                   held, _last_refresh>>

(* the caller deletes a key of the dict it got from get_tags *)
client_del_key(filename) ==
    /\ held.cat = "tags"
    /\ filename \in DOMAIN held.value
    /\ held' = [held EXCEPT !.value = Without(@, filename)]
    /\ heap' = Collect(heap, _tags, held')
    /\ ret' = Ret("client_mutate", filename, 0, "ok", 0)
    /\ UNCHANGED <<outsideCache, listVars, _popular_tags, ratingVars, viewVars,
                   favVars, store_tags, _tags,
                   _last_refresh>>

(* the caller deletes a key of the dict get_ratings or get_views returned, or
   an element of the list get_favorites returned (route toggle_favorite) *)
client_del_copy(filename) ==
    /\ ret.op \in {"get_ratings", "get_views", "get_favorites"}
    /\ ret' = Ret("client_mutate", filename, 0, "ok",
                  IF ret.op = "get_favorites" THEN Remove(ret.result, filename)
                  ELSE Without(ret.result, filename))
    /\ ret'.result # ret.result
    /\ UNCHANGED <<outsideCache, listVars, _popular_tags, ratingVars, viewVars,
                   favVars, tagVars, held,
                   _last_refresh>>

(* the caller lets go of the dict *)
client_drop ==
    /\ held.cat = "tags"
    /\ held' = NoHeld
    /\ heap' = Collect(heap, _tags, NoHeld)
    /\ ret' = Ret("client_drop", "", 0, "ok", 0)
    /\ UNCHANGED <<outsideCache, listVars, _popular_tags, ratingVars, viewVars,
                   favVars, store_tags, _tags,
                   _last_refresh>>

----------------------------------------------------------------------------
(* A cache read, step by step, as one of several threads runs it:
   with self._lock: was_valid = self._is_cache_valid(key); if not was_valid:
   reload and stamp; return the copy. *)

Reading(cache_key, pc) == [pc |-> pc, cache_key |-> cache_key, was_valid |-> FALSE]

(* a lock that excludes nobody *)
CanAcquire_Free(owner, t) == TRUE

(* threading.RLock: free, or already held by the thread that asks *)
CanAcquire(owner, t) == owner \in {"none", t}

(* the thread calls get_ratings or get_video_list and waits for the lock *)
read_call(t, cache_key) ==
    /\ readers[t] = Idle
    /\ readers' = [readers EXCEPT ![t] = Reading(cache_key, "wait")]
    /\ UNCHANGED <<cfgVars, metricVars, now, cacheVars, limiterVars, _lock, lock,
                   callVars, ret>>

read_enter(t) ==
    /\ readers[t].pc = "wait"
    /\ CanAcquire(_lock, t)
    /\ _lock' = t
    /\ readers' = [readers EXCEPT ![t].pc = "check"]
    /\ UNCHANGED <<cfgVars, metricVars, now, cacheVars, limiterVars, lock, callVars, ret>>

read_check(t) ==
    /\ readers[t].pc = "check"
    /\ readers' = [readers EXCEPT ![t].pc =
                      IF _is_cache_valid(readers[t].cache_key)
                      THEN "copy" ELSE "reload",
                                  ![t].was_valid = _is_cache_valid(readers[t].cache_key)]
    /\ UNCHANGED <<cfgVars, metricVars, now, cacheVars, limiterVars, _lock, lock,
                   callVars, ret>>

read_reload(t) ==
    /\ readers[t].pc = "reload"
    /\ IF readers[t].cache_key = "ratings"
       THEN /\ _ratings' = LoadRatings
            /\ UNCHANGED listVars
       ELSE /\ store_videos' = _ensure_videos_in_database
            /\ ensured' = Ensured
            /\ _video_list' \in LoadVideoList
            /\ _video_metadata' = PoppedMetadata(_video_list, _video_list')
            /\ UNCHANGED _ratings
    /\ _last_refresh' = Refreshed(_last_refresh, readers[t].cache_key)
    /\ readers' = [readers EXCEPT ![t].pc = "copy"]
    /\ UNCHANGED <<cfgVars, metricVars, now, limiterVars, store_ratings, viewVars, favVars,
                   tagVars, _popular_tags, held, _lock, lock, callVars, ret>>

read_return(t) ==
    /\ readers[t].pc = "copy"
    /\ _lock' = "none"
    /\ readers' = [readers EXCEPT ![t] = Idle]
    /\ ret' = Ret("read", readers[t].cache_key, 0, "ok",
                  IF readers[t].cache_key = "ratings" THEN _ratings
                  ELSE _video_list)
    /\ Counted(<<readers[t].was_valid>>)
    /\ UNCHANGED <<cfgVars, sampleVars, recorders, _SNAPSHOT_CACHE, perf_monitor, now,
                   cacheVars, limiterVars, lock, callVars>>

(* update_view, step by step, as one of several threads runs it: the whole
   body is under `with self._lock:`. *)

Viewing(filename, pc, persisted, new_count) ==
    [pc |-> pc, filename |-> filename, persisted |-> persisted, new_count |-> new_count]

(* the thread calls update_view(filename) and waits for the lock; the count
   persisted at the time of the call is kept *)
view_call(t, filename) ==
    /\ readers[t] = Idle
    /\ readers' = [readers EXCEPT ![t] =
                      Viewing(filename, "view_wait", Get(store_views, filename, 0), 0)]
    /\ UNCHANGED <<cfgVars, metricVars, now, cacheVars, limiterVars, _lock, lock,
                   callVars, ret>>

view_enter(t) ==
    /\ readers[t].pc = "view_wait"
    /\ CanAcquire(_lock, t)
    /\ _lock' = t
    /\ readers' = [readers EXCEPT ![t].pc = "view_count"]
    /\ UNCHANGED <<cfgVars, metricVars, now, cacheVars, limiterVars, lock, callVars, ret>>

(* the body under the lock: the database increments and the dict takes the
   new count, or the dict is incremented and saved whole *)
view_count(t) ==
    LET filename == readers[t].filename
        new_count == IF use_database THEN db_increment_view_count(filename)
                     ELSE Get(_views, filename, 0) + 1
    IN  /\ readers[t].pc = "view_count"
        /\ _views' = Put(_views, filename, new_count)
        /\ store_views' = (IF use_database THEN Put(store_views, filename, new_count)
                           ELSE _views')
        /\ readers' = [readers EXCEPT ![t].pc = "view_return",
                                      ![t].new_count = new_count]
        /\ UNCHANGED <<cfgVars, metricVars, now, limiterVars, ratingVars, favVars, tagVars,
                       _popular_tags, listVars, held, _last_refresh, _lock, lock,
                       callVars, ret>>

(* the lock is released and new_count returned; the thread keeps it *)
view_return(t) ==
    /\ readers[t].pc = "view_return"
    /\ _lock' = "none"
    /\ readers' = [readers EXCEPT ![t].pc = "viewed"]
    /\ ret' = Ret("update_view", readers[t].filename, 0, "ok", readers[t].new_count)
    /\ UNCHANGED <<cfgVars, metricVars, now, cacheVars, limiterVars, lock, callVars>>

----------------------------------------------------------------------------
(* The Flask routes of src/main.py that write favorites and tags *)

(* list.remove(x): the first x is dropped *)
ListRemove(s, x) ==
    LET i == CHOOSE k \in 1..Len(s) : s[k] = x /\ \A j \in 1..(k - 1) : s[j] # x
    IN  SubSeq(s, 1, i - 1) \o SubSeq(s, i + 1, Len(s))

(* if filename in favorites: favorites.remove(filename)
   else: favorites.append(filename) *)
Toggled(favorites, filename) ==
    IF Contains(favorites, filename) THEN ListRemove(favorites, filename)
    ELSE Append(favorites, filename)

(* POST /favorite: the list is read through the cache, toggled, and written
   through the cache.  `done`: the backend calls of update_favorites that
   complete before one raises; an exception is answered 500. *)
toggle_favorite(filename, done) ==
    /\ \E read \in (IF _is_cache_valid("favorites") THEN {_favorites} ELSE LoadFavorites) :
          LET favorites == Toggled(read, filename)
          IN  /\ _favorites' = favorites
              /\ IF use_database
                 THEN \E current_favorites \in db_get_favorites(store_favorites) :
                        LET ops == SelectSeq(current_favorites,
                                             LAMBDA f : ~Contains(favorites, f))
                                   \o SelectSeq(favorites,
                                             LAMBDA f : ~Contains(current_favorites, f))
                            total == 1 + Len(ops)
                        IN  /\ done <= total
                            /\ store_favorites' =
                                  (IF done = 0 THEN store_favorites
                                   ELSE ApplyToggles(store_favorites, ops, done - 1))
                            /\ ret' = Ret("toggle_favorite", filename, read,
                                          IF done = total THEN "ok" ELSE "BackendError",
                                          favorites)
                 ELSE /\ done <= 1
                      /\ store_favorites' =
                            (IF done = 1 THEN favorites ELSE store_favorites)
                      /\ ret' = Ret("toggle_favorite", filename, read,
                                    IF done = 1 THEN "ok" ELSE "BackendError", favorites)
    /\ _last_refresh' = (IF _is_cache_valid("favorites") THEN _last_refresh
                         ELSE Refreshed(_last_refresh, "favorites"))
    /\ Counted(<<_is_cache_valid("favorites")>>)
    /\ UNCHANGED <<besideReads, listVars, _popular_tags, ratingVars, viewVars, tagVars,
                   held>>

(* POST /favorite (src/main.py) in a thread: get_favorites and
   update_favorites each run under the VideoCache lock, the toggle of the
   list between them runs outside it.  `before`: the favorites of the backend
   when the request came in. *)
FavoriteIds == IF use_database THEN DOMAIN store_favorites ELSE Range(store_favorites)

Toggling(filename, pc, favorites, before) ==
    [pc |-> pc, filename |-> filename, favorites |-> favorites, before |-> before]

(* data = request.get_json(); filename = data.get("filename") *)
fav_call(t, filename) ==
    /\ readers[t] = Idle
    /\ readers' = [readers EXCEPT ![t] = Toggling(filename, "fav_read", <<>>, FavoriteIds)]
    /\ UNCHANGED <<cfgVars, metricVars, now, cacheVars, limiterVars, _lock, lock,
                   callVars, ret>>

(* favorites = cache.get_favorites(); then the toggle of the copy *)
fav_read(t) ==
    /\ readers[t].pc = "fav_read"
    /\ CanAcquire(_lock, t)
    /\ _favorites' \in (IF _is_cache_valid("favorites") THEN {_favorites}
                        ELSE LoadFavorites)
    /\ _last_refresh' = (IF _is_cache_valid("favorites") THEN _last_refresh
                         ELSE Refreshed(_last_refresh, "favorites"))
    /\ Counted(<<_is_cache_valid("favorites")>>)
    /\ readers' = [readers EXCEPT ![t].pc = "fav_write",
                                  ![t].favorites = Toggled(_favorites', readers[t].filename)]
    /\ UNCHANGED <<cfgVars, now, limiterVars, _lock, lock, callVars, sampleVars,
                   recorders, _SNAPSHOT_CACHE, perf_monitor, listVars, _popular_tags,
                   ratingVars, viewVars, tagVars, held, store_favorites, ret>>

(* cache.update_favorites(favorites), every backend call of it succeeding;
   return jsonify({"success": True, "favorites": favorites}) *)
fav_write(t) ==
    LET favorites == readers[t].favorites
    IN  /\ readers[t].pc = "fav_write"
        /\ CanAcquire(_lock, t)
        /\ _favorites' = favorites
        /\ IF use_database
           THEN \E current_favorites \in db_get_favorites(store_favorites) :
                  LET ops == SelectSeq(current_favorites,
                                       LAMBDA f : ~Contains(favorites, f))
                             \o SelectSeq(favorites,
                                       LAMBDA f : ~Contains(current_favorites, f))
                  IN  store_favorites' = ApplyToggles(store_favorites, ops, Len(ops))
           ELSE store_favorites' = favorites
        /\ readers' = [readers EXCEPT ![t].pc = "toggled"]
        /\ ret' = Ret("toggle_favorite", readers[t].filename, 0, "ok", favorites)
        /\ UNCHANGED <<cfgVars, metricVars, now, limiterVars, _lock, lock, callVars,
                       listVars, _popular_tags, ratingVars, viewVars, tagVars, held,
                       _last_refresh>>

(* str.strip(), str.lower() and str.startswith("#") on the tags the requests
   carry *)
TagInputs == {"x", "#X ", "#y", " "}

Strip(s) ==
    CASE s = "#X " -> "#X"
      [] s = " " -> ""
      [] OTHER -> s

Lower(s) ==
    CASE s = "#X" -> "#x"
      [] s = "X" -> "x"
      [] OTHER -> s

StartsWithHash(s) == s \in {"#x", "#X", "#y", "#"}

(* "#" + tag *)
Hashed(s) ==
    CASE s = "x" -> "#x"
      [] s = "X" -> "#X"
      [] s = "y" -> "#y"
      [] OTHER -> s

(* a duplicate test that tells the cases apart *)
IsDuplicate_Exact(tag, current_tags) == Contains(current_tags, tag)

(* tag.lower() in [t.lower() for t in current_tags] *)
IsDuplicate(tag, current_tags) ==
    \E i \in 1..Len(current_tags) : Lower(current_tags[i]) = Lower(tag)

(* [t for t in current_tags if t.lower() != tag.lower()] *)
WithoutTag(current_tags, tag) ==
    SelectSeq(current_tags, LAMBDA t : Lower(t) # Lower(tag))

(* cache.get_tags() inside a request: the dict and the lists the cache holds
   after the read, and its refresh times *)
TagsRead ==
    IF _is_cache_valid("tags")
    THEN [tagmap |-> _tags, hp |-> heap, lr |-> _last_refresh]
    ELSE LET tm == AllocRefs(DOMAIN LoadTags, FreeRefs(EmptyMap, held))
         IN  [tagmap |-> tm,
              hp |-> [r \in Refs |->
                         IF \E f \in DOMAIN tm : tm[f] = r
                         THEN LoadTags[CHOOSE f \in DOMAIN tm : tm[f] = r]
                         ELSE IF r \in LiveRefs(EmptyMap, held) THEN heap[r] ELSE <<>>],
              lr |-> Refreshed(_last_refresh, "tags")]

(* a request that only read the tags *)
TagsOnlyRead(rd) ==
    /\ _tags' = rd.tagmap
    /\ heap' = Collect(rd.hp, rd.tagmap, held)
    /\ _last_refresh' = rd.lr
    /\ UNCHANGED <<store_tags, _popular_tags>>

(* cache.update_tags(filename, tags) inside a request, after the read rd:
   `tags` is the list object r of the heap hp; the backend calls stop after
   `done` of them when one raises, and the request is answered 500. *)
TagsWritten(rd, filename, r, hp, done, op, tag) ==
    LET tagmap == Put(rd.tagmap, filename, r)
        tags == hp[r]
        rows == Get(store_tags, filename, <<>>)
        existing_tags == SortTags(rows)
        ops == [i \in 1..Len(existing_tags) |-> <<"remove", existing_tags[i]>>]
               \o [i \in 1..Len(tags) |-> <<"add", tags[i]>>]
        total == IF use_database THEN 1 + Len(ops) ELSE 1
        ok == done = total
    IN  /\ done <= total
        /\ _tags' = tagmap
        /\ heap' = Collect(hp, tagmap, held)
        /\ store_tags' =
              (IF use_database
               THEN IF done = 0 THEN store_tags
                    ELSE Put(store_tags, filename, ApplyTagOps(rows, ops, done - 1))
               ELSE IF ok THEN TagsValue(tagmap, hp) ELSE store_tags)
        /\ _last_refresh' = (IF ok THEN Zeroed(rd.lr, "popular_tags") ELSE rd.lr)
        /\ _popular_tags' = (IF ok THEN <<>> ELSE _popular_tags)
        /\ ret' = Ret(op, filename, tag, IF ok THEN "ok" ELSE "BackendError", tags)

(* POST /tag.  current_tags is the list the cache holds for the file when it
   holds one, and the tag is appended to that list. *)
add_tag(filename, data, done) ==
    LET stripped == Strip(data)
        tag == IF StartsWithHash(stripped) THEN stripped ELSE Hashed(stripped)
        rd == TagsRead
        known == filename \in DOMAIN rd.tagmap
        r == IF known THEN rd.tagmap[filename]
             ELSE CHOOSE x \in FreeRefs(rd.tagmap, held) :
                     \A y \in FreeRefs(rd.tagmap, held) : x <= y
        current_tags == IF known THEN rd.hp[r] ELSE <<>>
    IN  /\ IF stripped = ""
           THEN /\ ret' = Ret("add_tag", filename, stripped, "400", <<>>)
                /\ UNCHANGED <<tagVars, _last_refresh, _popular_tags>>
           ELSE IF IsDuplicate(tag, current_tags)
           THEN /\ TagsOnlyRead(rd)
                /\ ret' = Ret("add_tag", filename, tag, "ok", current_tags)
           ELSE TagsWritten(rd, filename, r,
                            [rd.hp EXCEPT ![r] = Append(current_tags, tag)],
                            done, "add_tag", tag)
        /\ Counted(IF Strip(data) = "" THEN <<>> ELSE <<_is_cache_valid("tags")>>)
        /\ UNCHANGED <<besideReads, listVars, ratingVars, viewVars, favVars, held>>

(* POST /delete_tag.  updated_tags is a new list. *)
delete_tag(filename, data, done) ==
    LET tag == Strip(data)
        rd == TagsRead
        current_tags == IF filename \in DOMAIN rd.tagmap
                        THEN rd.hp[rd.tagmap[filename]] ELSE <<>>
        r == CHOOSE x \in FreeRefs(rd.tagmap, held) :
                \A y \in FreeRefs(rd.tagmap, held) : x <= y
    IN  /\ IF tag = ""
           THEN /\ ret' = Ret("delete_tag", filename, tag, "400", <<>>)
                /\ UNCHANGED <<tagVars, _last_refresh, _popular_tags>>
           ELSE IF current_tags = <<>>
           THEN /\ TagsOnlyRead(rd)
                /\ ret' = Ret("delete_tag", filename, tag, "404", <<>>)
           ELSE TagsWritten(rd, filename, r,
                            [rd.hp EXCEPT ![r] = WithoutTag(current_tags, tag)],
                            done, "delete_tag", tag)
        /\ Counted(IF Strip(data) = "" THEN <<>> ELSE <<_is_cache_valid("tags")>>)
        /\ UNCHANGED <<besideReads, listVars, ratingVars, viewVars, favVars, held>>

----------------------------------------------------------------------------
(* The video list against the directory, the database calls failing or not *)

(* a reconciliation that only ever adds *)
EnsureVideos_AddOnly(videos, files, read_ok, inserted, delete_ok) ==
    videos \cup files

(* _ensure_videos_in_database on the videos table `videos` with the files
   `files` in the directory.  read_ok: get_all_videos returns (the function
   returns early otherwise); inserted: the new files whose INSERT committed
   before one raised and ended the loop; delete_ok: the DELETE of the rows
   missing on disk committed. *)
EnsureVideos(videos, files, read_ok, inserted, delete_ok) ==
    LET new_videos == files \ videos
        removed_videos == videos \ files
    IN  IF ~read_ok THEN videos
        ELSE (videos \cup (inserted \cap new_videos))
                \ (IF delete_ok THEN removed_videos ELSE {})

(* whether every database call of the refresh returned *)
RefreshClean(videos, files, read_ok, inserted, delete_ok, names_ok) ==
    /\ read_ok
    /\ (files \ videos) \subseteq inserted
    /\ delete_ok
    /\ names_ok

(* get_video_list: a stale entry is reconciled and read again; names_ok:
   get_all_filenames returns (the directory is listed otherwise). *)
get_video_list_with(read_ok, inserted, delete_ok, names_ok) ==
    /\ IF _is_cache_valid("video_list")
          THEN /\ UNCHANGED <<listVars, _last_refresh>>
               /\ ret' = Ret("get_video_list", "", "hit", "ok", _video_list)
          ELSE IF use_database
          THEN LET videos == EnsureVideos(store_videos, disk, read_ok, inserted,
                                          delete_ok)
               IN  /\ store_videos' = videos
                   /\ ensured' = Ensured
                   /\ _video_list' \in (IF names_ok THEN {db_get_all_filenames(videos)}
                                        ELSE _scan_video_directory)
                   /\ _video_metadata' = PoppedMetadata(_video_list, _video_list')
                   /\ _last_refresh' = Refreshed(_last_refresh, "video_list")
                   /\ ret' = Ret("get_video_list", "", "miss",
                                 IF RefreshClean(store_videos, disk, read_ok, inserted,
                                                 delete_ok, names_ok)
                                 THEN "ok" ELSE "logged", _video_list')
          ELSE /\ UNCHANGED tableVars
               /\ _video_list' \in _scan_video_directory
               /\ _video_metadata' = PoppedMetadata(_video_list, _video_list')
               /\ _last_refresh' = Refreshed(_last_refresh, "video_list")
               /\ ret' = Ret("get_video_list", "", "miss", "ok", _video_list')
    /\ Counted(<<_is_cache_valid("video_list")>>)
    /\ UNCHANGED <<besideReads, _popular_tags, ratingVars, viewVars, favVars, tagVars,
                   held>>

(* INSERT OR IGNORE INTO videos (filename): the first statement of
   update_rating, increment_view_count, add_tag and toggle_favorite of
   VideoDatabase gives any filename a row *)
insert_video_row(filename) ==
    /\ use_database
    /\ store_videos' = store_videos \cup {filename}
    /\ ret' = Ret("insert_video_row", filename, 0, "ok", 0)
    /\ UNCHANGED <<outsideCache, ensured, _video_list, _video_metadata, _popular_tags,
                   ratingVars, viewVars, favVars, tagVars, held, _last_refresh>>

(* a video file is copied into the directory or deleted from it *)
file_added(filename) ==
    /\ filename \notin disk
    /\ disk' = disk \cup {filename}
    /\ ret' = Ret("file_added", filename, 0, "ok", 0)
    /\ UNCHANGED <<use_database, db, now, cacheVars, limiterVars, threadVars,
                   metricVars>>

file_removed(filename) ==
    /\ filename \in disk
    /\ disk' = disk \ {filename}
    /\ ret' = Ret("file_removed", filename, 0, "ok", 0)
    /\ UNCHANGED <<use_database, db, now, cacheVars, limiterVars, threadVars,
                   metricVars>>

----------------------------------------------------------------------------
(* The catalogue: get_video_metadata, get_all_video_data and
   get_related_videos_optimized (src/cache_manager.py) *)

(* os.path.getctime of the video files, in units of 2e6 seconds *)
getctime == [f \in Ids |-> IF f = "a" THEN 850 ELSE 851]

(* the record get_video_metadata builds for a file, from the dicts as they
   are in memory (its 'tags' entry is left out) *)
BuiltMetadata(filename) ==
    [filename |-> filename, added_date |-> getctime[filename],
     rating |-> Get(_ratings, filename, 0), views |-> Get(_views, filename, 0)]

(* get_video_metadata(video) on the records kept `md`: a record kept is
   returned as it is; one is built and kept for a file on disk not yet
   known; no record for a file that is not on disk *)
Memo(md, video) ==
    IF video \in DOMAIN md THEN md
    ELSE IF video \in disk THEN Put(md, video, BuiltMetadata(video))
    ELSE md

RECURSIVE MemoAll(_, _)
MemoAll(md, videos) ==
    IF videos = <<>> THEN md ELSE MemoAll(Memo(md, videos[1]), Tail(videos))

(* the position of a filename in the order of strings *)
TitleKey(filename) == CHOOSE i \in 1..Len(IdOrder) : IdOrder[i] = filename

(* the key get_all_video_data and get_all_videos sort by *)
SortKey(record, sort_by) ==
    CASE sort_by = "rating" -> record.rating
      [] sort_by = "title" -> TitleKey(record.filename)
      [] sort_by = "views" -> record.views
      [] OTHER -> record.added_date

(* list.sort(key=..., reverse=reverse): stable in both directions *)
RECURSIVE InsertStable(_, _, _, _)
InsertStable(sorted, x, sort_by, reverse) ==
    IF sorted = <<>> THEN <<x>>
    ELSE LET y == sorted[1]
             x_first == IF reverse THEN SortKey(x, sort_by) > SortKey(y, sort_by)
                        ELSE SortKey(x, sort_by) < SortKey(y, sort_by)
         IN  IF x_first THEN <<x>> \o sorted
             ELSE <<y>> \o InsertStable(Tail(sorted), x, sort_by, reverse)

RECURSIVE SortStable(_, _, _)
SortStable(records, sort_by, reverse) ==
    IF records = <<>> THEN <<>>
    ELSE InsertStable(SortStable(SubSeq(records, 1, Len(records) - 1), sort_by, reverse),
                      records[Len(records)], sort_by, reverse)

(* VideoDatabase.get_all_videos(sort_by, order): the rows of the videos table
   joined with their rating and views, ORDER BY the column; rows with equal
   columns come in an order SQL leaves open *)
db_get_all_videos(videos, sort_by, reverse) ==
    LET row(f) == [filename |-> f, added_date |-> getctime[f],
                   rating |-> Get(store_ratings, f, 0),
                   views |-> Get(store_views, f, 0)]
    IN  {[i \in 1..Len(s) |-> row(s[i])] : s \in
            {o \in ListsOver(videos) :
                /\ Len(o) = Cardinality(videos)
                /\ \A i, j \in 1..Len(o) :
                      i < j => IF reverse
                               THEN SortKey(row(o[i]), sort_by) >= SortKey(row(o[j]), sort_by)
                               ELSE SortKey(row(o[i]), sort_by) <= SortKey(row(o[j]), sort_by)}}

(* _filter_existing *)
_filter_existing(items) == SelectSeq(items, LAMBDA item : item.filename \in disk)

(* the parameters of get_all_video_data *)
Parameters == {"sort_by", "reverse"}

(* get_all_video_data(sort_by, reverse, **kwargs): `kwargs` are the names of
   the keyword arguments the caller adds (index adds limit and offset); a
   name that is no parameter of the function raises TypeError before the
   body runs. *)
get_all_video_data(sort_by, reverse, kwargs) ==
    /\ IF ~(kwargs \subseteq Parameters)
       THEN /\ ret' = Ret("get_all_video_data", sort_by,
                          [reverse |-> reverse, kwargs |-> kwargs], "TypeError", <<>>)
            /\ UNCHANGED <<listVars, _last_refresh>>
       ELSE IF use_database
       THEN /\ store_videos' = _ensure_videos_in_database
            /\ ensured' = Ensured
            /\ \E rows \in db_get_all_videos(store_videos', sort_by, reverse) :
                  ret' = Ret("get_all_video_data", sort_by,
                             [reverse |-> reverse, kwargs |-> kwargs], "ok",
                             _filter_existing(rows))
            /\ UNCHANGED <<_video_list, _video_metadata, _last_refresh>>
       ELSE /\ IF _is_cache_valid("video_list")
               THEN UNCHANGED <<_video_list, _last_refresh>>
               ELSE /\ _video_list' \in _scan_video_directory
                    /\ _last_refresh' = Refreshed(_last_refresh, "video_list")
            /\ _video_metadata' =
                  MemoAll(PoppedMetadata(_video_list, _video_list'), _video_list')
            /\ LET video_data ==
                      [i \in 1..Len(SelectSeq(_video_list',
                                              LAMBDA v : v \in DOMAIN _video_metadata'))
                          |-> _video_metadata'[SelectSeq(_video_list',
                                 LAMBDA v : v \in DOMAIN _video_metadata')[i]]]
               IN  ret' = Ret("get_all_video_data", sort_by,
                              [reverse |-> reverse, kwargs |-> kwargs], "ok",
                              SortStable(video_data, sort_by, reverse))
            /\ UNCHANGED tableVars
    /\ Counted(IF kwargs \subseteq Parameters /\ ~use_database
               THEN <<_is_cache_valid("video_list")>> ELSE <<>>)
    /\ UNCHANGED <<besideReads, _popular_tags, ratingVars, viewVars, favVars, tagVars,
                   held>>

(* VideoCache.get(key, force_refresh).  A key is the list of the parts that
   '_' separates ('video_list' is <<"video", "list">>, 'tags_a' is
   <<"tags", "a">>), so that key.split('_', 1)[0] is its first part; file
   names are single parts. *)
ALL_VIDEOS == <<"all", "videos">>
VIDEO_LIST == <<"video", "list">>

(* base = key.split('_', 1)[0] *)
KeyBase(key) == key[1]

(* if force_refresh: if base in self._last_refresh: self._last_refresh[base] = 0 *)
Forced(key, force_refresh) ==
    IF force_refresh /\ KeyBase(key) \in DOMAIN _last_refresh
    THEN Zeroed(_last_refresh, KeyBase(key))
    ELSE _last_refresh

(* key.startswith(prefix + '_') *)
StartsWith(key, prefix) == Len(key) > 1 /\ key[1] = prefix

(* the category whose getter get(key) calls, "none" when it returns None *)
Getter(key) ==
    IF key = VIDEO_LIST THEN "video_list"
    ELSE IF key \in {<<"ratings">>, <<"views">>, <<"tags">>, <<"favorites">>} THEN key[1]
    ELSE IF StartsWith(key, "tags") THEN "tags"
    ELSE IF StartsWith(key, "views") THEN "views"
    ELSE IF StartsWith(key, "rating") THEN "ratings"
    ELSE "none"

(* _is_cache_valid(cache_key) once `get` has dealt with force_refresh *)
ValidIn(lr, cache_key) == (now - lr[cache_key]) < Ttl(cache_key) * Res

(* what get(key) makes of the value its getter returned *)
Picked(key, value, default) == IF Len(key) > 1 THEN Get(value, key[2], default) ELSE value

get(key, force_refresh) ==
    LET lr == Forced(key, force_refresh)
        category == Getter(key)
        reload == category # "none" /\ ~ValidIn(lr, category)
    IN  /\ key # ALL_VIDEOS
        /\ _last_refresh' = (IF reload THEN Refreshed(lr, category) ELSE lr)
        /\ _ratings' = (IF reload /\ category = "ratings" THEN LoadRatings ELSE _ratings)
        /\ _views' = (IF reload /\ category = "views" THEN LoadViews ELSE _views)
        /\ _favorites' \in (IF reload /\ category = "favorites" THEN LoadFavorites
                            ELSE {_favorites})
        /\ IF reload /\ category = "video_list"
           THEN /\ store_videos' = _ensure_videos_in_database
                /\ ensured' = Ensured
                /\ _video_list' \in LoadVideoList
                /\ _video_metadata' = PoppedMetadata(_video_list, _video_list')
           ELSE UNCHANGED listVars
        /\ IF category = "tags"
           THEN /\ _tags' = (IF reload THEN AllocRefs(DOMAIN LoadTags, Refs) ELSE _tags)
                /\ held' = [cat |-> "tags", value |-> _tags']
                /\ heap' = IF ~reload
                           THEN Collect(heap, _tags', held')
                           ELSE [r \in Refs |->
                                    IF \E f \in DOMAIN _tags' : _tags'[f] = r
                                    THEN LoadTags[CHOOSE f \in DOMAIN _tags' : _tags'[f] = r]
                                    ELSE <<>>]
           ELSE UNCHANGED <<_tags, heap, held>>
        /\ Counted(IF category = "none" THEN <<>> ELSE <<~reload>>)
        /\ ret' = Ret("get", key, force_refresh, "ok",
                      [reloaded |-> reload,
                       value |-> CASE category = "ratings" -> Picked(key, _ratings', 0)
                                   [] category = "views" -> Picked(key, _views', 0)
                                   [] category = "tags" ->
                                         Picked(key, TagsValue(_tags', heap'), <<>>)
                                   [] category = "favorites" -> _favorites'
                                   [] category = "video_list" -> _video_list'
                                   [] OTHER -> {}])
        /\ UNCHANGED <<besideReads, _popular_tags, store_ratings, store_views,
                       store_favorites, store_tags>>

(* if key == 'all_videos': return self.get_all_video_data() *)
get_all_videos(force_refresh) ==
    /\ _last_refresh = Forced(ALL_VIDEOS, force_refresh)
    /\ get_all_video_data("date", TRUE, {})

(* len(current_tags_set & set(video_tags)) *)
Overlap(current_tags, video_tags) == Cardinality(Range(current_tags) \cap Range(video_tags))

(* overlap * 3.0 + rating * 0.6 + min(views, 5000) / 500.0
   + (recency / 1e9) * 0.1, times 5000, the added_date being in units of
   2e6 seconds *)
Score(overlap, rating, views, added_date) ==
    15000 * overlap + 3000 * rating + 10 * Min(views, 5000) + added_date

(* the sort key of related_videos.sort, compared as Python compares tuples *)
RelatedGreater(x, y) ==
    \/ x.related_score > y.related_score
    \/ /\ x.related_score = y.related_score
       /\ \/ x.tag_overlap > y.tag_overlap
          \/ /\ x.tag_overlap = y.tag_overlap
             /\ \/ x.rating > y.rating
                \/ (x.rating = y.rating /\ x.views > y.views)

(* related_videos.sort(key=..., reverse=True) *)
RECURSIVE InsertRelated(_, _)
InsertRelated(sorted, x) ==
    IF sorted = <<>> THEN <<x>>
    ELSE IF RelatedGreater(x, sorted[1]) THEN <<x>> \o sorted
    ELSE <<sorted[1]>> \o InsertRelated(Tail(sorted), x)

RECURSIVE SortRelated(_)
SortRelated(records) ==
    IF records = <<>> THEN <<>>
    ELSE InsertRelated(SortRelated(SubSeq(records, 1, Len(records) - 1)),
                       records[Len(records)])

(* the candidates of the loop over all_tags.items(), in the order `videos` of
   the dict, with the records kept `md` *)
Scored(videos, all_tags, current_tags, md, filename) ==
    LET kept == SelectSeq(videos, LAMBDA video :
                    /\ video # filename
                    /\ Overlap(current_tags, all_tags[video]) > 0
                    /\ video \in DOMAIN md)
    IN  [i \in 1..Len(kept) |->
            [filename |-> kept[i],
             added_date |-> md[kept[i]].added_date,
             rating |-> md[kept[i]].rating,
             views |-> md[kept[i]].views,
             tag_overlap |-> Overlap(current_tags, all_tags[kept[i]]),
             related_score |-> Score(Overlap(current_tags, all_tags[kept[i]]),
                                     md[kept[i]].rating, md[kept[i]].views,
                                     md[kept[i]].added_date)]]

(* get_related_videos_optimized(filename, limit) on the flat-file backend:
   the tags are read through the cache, the rating, views and added_date of a
   candidate are those of the record get_video_metadata keeps for it. *)
get_related_videos_optimized(filename, limit) ==
    LET rd == TagsRead
        all_tags == TagsValue(rd.tagmap, rd.hp)
        current_tags == Get(all_tags, filename, <<>>)
    IN  /\ ~use_database
        /\ TagsOnlyRead(rd)
        /\ \E videos \in {s \in ListsOver(DOMAIN all_tags) :
                             Len(s) = Cardinality(DOMAIN all_tags)} :
              LET candidates == SelectSeq(videos, LAMBDA video :
                                   /\ video # filename
                                   /\ Overlap(current_tags, all_tags[video]) > 0)
                  md == IF current_tags = <<>> THEN _video_metadata
                        ELSE MemoAll(_video_metadata, candidates)
                  related_videos == IF current_tags = <<>> THEN <<>>
                                    ELSE SortRelated(Scored(videos, all_tags, current_tags,
                                                            md, filename))
              IN  /\ _video_metadata' = md
                  /\ ret' = Ret("get_related_videos_optimized", filename, limit, "ok",
                                SubSeq(related_videos, 1, Min(limit, Len(related_videos))))
        /\ Counted(<<_is_cache_valid("tags")>>)
        /\ UNCHANGED <<besideReads, tableVars, _video_list, ratingVars, viewVars,
                       favVars, held>>

(* Time passes. *)
Tick(d, horizon) ==
    /\ now + d <= StartTime + horizon
    /\ now' = now + d
    /\ ret' = Ret("tick", "", 0, "ok", 0)
    /\ UNCHANGED <<cfgVars, metricVars, threadVars, cacheVars, limiterVars>>

----------------------------------------------------------------------------
(* RateLimiter (src/backend/app/core/rate_limiter.py) *)

Keys == {"ip1", "ip2"}

(* the entries of the list that lie inside the window ending at time t *)
Purge(lst, t) == SelectSeq(lst, LAMBDA ts : ts > t - window_seconds * Res)

(* self.requests after the clean-up of ip_address at time t; reading
   self.requests[ip_address] creates the key (defaultdict) *)
Purged(ip_address, t) ==
    Put(requests, ip_address, Purge(Get(requests, ip_address, <<>>), t))

Oldest(lst) == CHOOSE x \in Range(lst) : \A y \in Range(lst) : x <= y

(* remaining counted before the request is taken *)
Remaining_Before(current_count) == Max(0, max_requests - current_count)

Remaining(current_count) == Max(0, max_requests - current_count - 1)

(* max(1, int(oldest + window_seconds - now)), 0 for an empty list *)
ResetIn(lst, t) ==
    IF lst # <<>>
    THEN Max(1, (Oldest(lst) + window_seconds * Res - t) \div Res)
    ELSE 0

Admits(current_count) == current_count < max_requests

(* what is_allowed(ip_address) returns at time t, and self.requests after it *)
IsAllowed(ip_address, t) ==
    LET cleaned == Purged(ip_address, t)
        lst == cleaned[ip_address]
        current_count == Len(lst)
    IN  IF Admits(current_count)
        THEN [allowed |-> TRUE, remaining |-> Remaining(current_count),
              reset_in |-> ResetIn(lst, t),
              requests |-> Put(cleaned, ip_address, Append(lst, t))]
        ELSE [allowed |-> FALSE, remaining |-> 0,
              reset_in |-> ResetIn(lst, t),
              requests |-> cleaned]

(* History of the calls of one ip.  A burst starts with a call made when every
   earlier call of the ip lies a full window back; k counts the calls of the
   burst while they fall within one window of its first call, and is 0 once
   the burst has outlived that window. *)
NoBurst == [first |-> 0, last |-> 0, k |-> 0]

NextBurst(b, t) ==
    IF t - b.last >= window_seconds * Res
    THEN [first |-> t, last |-> t, k |-> 1]
    ELSE IF b.k > 0 /\ t - b.first < window_seconds * Res
    THEN [first |-> b.first, last |-> t, k |-> b.k + 1]
    ELSE [first |-> 0, last |-> t, k |-> 0]

(* the admitted timestamps that lie within one window of the latest one *)
Admit(lst, t) ==
    LET all == Append(lst, t)
        latest == CHOOSE x \in Range(all) : \A y \in Range(all) : y <= x
    IN  SelectSeq(all, LAMBDA ts : ts > latest - window_seconds * Res)

NoteCall(ip_address, t, allowed) ==
    /\ burst' = [burst EXCEPT ![ip_address] = NextBurst(@, t)]
    /\ admitted' = (IF allowed THEN [admitted EXCEPT ![ip_address] = Admit(@, t)]
                    ELSE admitted)

is_allowed(ip_address) ==
    LET r == IsAllowed(ip_address, now)
    IN  /\ requests' = r.requests
        /\ NoteCall(ip_address, now, r.allowed)
        /\ ret' = Ret("is_allowed", ip_address, 0, "ok",
                      [allowed |-> r.allowed, remaining |-> r.remaining,
                       reset_in |-> r.reset_in])
        /\ UNCHANGED <<cfgVars, metricVars, threadVars, now, cacheVars, limiterCfg>>

get_stats(ip_address) ==
    LET cleaned == Purged(ip_address, now)
        current_count == Len(cleaned[ip_address])
    IN  /\ requests' = cleaned
        /\ ret' = Ret("get_stats", ip_address, 0, "ok",
                      [count |-> current_count, max |-> max_requests,
                       remaining |-> Max(0, max_requests - current_count)])
        /\ UNCHANGED <<cfgVars, metricVars, threadVars, now, cacheVars, limiterCfg,
                       burst, admitted>>

(* reset(ip_address): the list of a known key is emptied *)
reset(ip_address) ==
    /\ requests' = (IF ip_address \in DOMAIN requests
                    THEN Put(requests, ip_address, <<>>) ELSE requests)
    /\ burst' = [burst EXCEPT ![ip_address] = NoBurst]
    /\ admitted' = [admitted EXCEPT ![ip_address] = <<>>]
    /\ ret' = Ret("reset", ip_address, 0, "ok", 0)
    /\ UNCHANGED <<cfgVars, metricVars, threadVars, now, cacheVars, limiterCfg>>

reset_all ==
    /\ requests' = EmptyMap
    /\ burst' = [ip \in Keys |-> NoBurst]
    /\ admitted' = [ip \in Keys |-> <<>>]
    /\ ret' = Ret("reset_all", "", 0, "ok", 0)
    /\ UNCHANGED <<cfgVars, metricVars, threadVars, now, cacheVars, limiterCfg>>

----------------------------------------------------------------------------
(* is_allowed and get_stats, step by step, as one of several threads runs
   them: with self.lock: read the clock, clean the list, count it, record. *)

Working(op, ip_address, pc, at, current_count, reset_in) ==
    [pc |-> pc, op |-> op, ip |-> ip_address, at |-> at,
     current_count |-> current_count, reset_in |-> reset_in]

(* a lock that excludes nobody *)
LimiterCanEnter_Free(owner, t) == TRUE

(* RateLimiter.lock, a threading.RLock *)
LimiterCanEnter(owner, t) == owner \in {"none", t}

rl_call(t, op, ip_address) ==
    /\ workers[t] = Idle
    /\ workers' = [workers EXCEPT ![t] = Working(op, ip_address, "wait", 0, 0, 0)]
    /\ UNCHANGED <<cfgVars, executing, singletonVars, metricVars, now, cacheVars, limiterVars, _lock, readers,
                   lock, ret>>

(* with self.lock: now = time.time() *)
rl_enter(t) ==
    /\ workers[t].pc = "wait"
    /\ LimiterCanEnter(lock, t)
    /\ lock' = t
    /\ workers' = [workers EXCEPT ![t].pc = "purge", ![t].at = now]
    /\ UNCHANGED <<cfgVars, executing, singletonVars, metricVars, now, cacheVars, limiterVars, _lock, readers, ret>>

rl_purge(t) ==
    /\ workers[t].pc = "purge"
    /\ requests' = Purged(workers[t].ip, workers[t].at)
    /\ workers' = [workers EXCEPT ![t].pc = "count"]
    /\ UNCHANGED <<cfgVars, executing, singletonVars, metricVars, now, cacheVars, limiterCfg, burst, admitted, _lock,
                   readers, lock, ret>>

(* current_count = len(self.requests[ip_address]); get_stats returns here *)
rl_count(t) ==
    LET w == workers[t]
        lst == Get(requests, w.ip, <<>>)
    IN  /\ w.pc = "count"
        /\ IF w.op = "get_stats"
           THEN /\ workers' = [workers EXCEPT ![t] = Idle]
                /\ lock' = "none"
                /\ ret' = Ret("get_stats", w.ip, 0, "ok",
                              [count |-> Len(lst), max |-> max_requests,
                               remaining |-> Max(0, max_requests - Len(lst))])
           ELSE /\ workers' = [workers EXCEPT ![t] =
                                  Working(w.op, w.ip, "record", w.at, Len(lst),
                                          ResetIn(lst, w.at))]
                /\ UNCHANGED <<lock, ret>>
        /\ UNCHANGED <<cfgVars, executing, singletonVars, metricVars, now, cacheVars, limiterVars, _lock, readers>>

(* if current_count < self.max_requests: append(now); return *)
rl_record(t) ==
    LET w == workers[t]
        allowed == Admits(w.current_count)
    IN  /\ w.pc = "record"
        /\ requests' = (IF allowed
                        THEN Put(requests, w.ip,
                                 Append(Get(requests, w.ip, <<>>), w.at))
                        ELSE requests)
        /\ admitted' = (IF allowed THEN [admitted EXCEPT ![w.ip] = Admit(@, w.at)]
                        ELSE admitted)
        /\ workers' = [workers EXCEPT ![t] = Idle]
        /\ lock' = "none"
        /\ ret' = Ret("is_allowed", w.ip, 0, "ok",
                      [allowed |-> allowed,
                       remaining |-> IF allowed THEN Remaining(w.current_count)
                                     ELSE 0,
                       reset_in |-> w.reset_in])
        /\ UNCHANGED <<cfgVars, executing, singletonVars, metricVars, now, cacheVars, limiterCfg, burst, _lock,
                       readers>>

----------------------------------------------------------------------------
(* RatingsService (src/backend/services/ratings_service.py), wired as in
   src/backend/app/api/ratings.py: the service holds the global cache and a
   VideoDatabase on the database file of the cache, so it exists together with
   the database backend. *)

NoUser == [has |-> FALSE, value |-> 0]
User(v) == [has |-> TRUE, value |-> v]

(* get_rating_summary on the dict cache.get_ratings() returned *)
Summary(ratings, filename) ==
    LET user_rating == Get(ratings, filename, 0)
    IN  IF user_rating # 0
        THEN [average |-> user_rating, count |-> 1, user |-> User(user_rating)]
        ELSE [average |-> 0, count |-> 0, user |-> NoUser]

get_rating_summary(filename) ==
    /\ use_database
    /\ IF _is_cache_valid("ratings")
          THEN UNCHANGED <<_ratings, _last_refresh>>
          ELSE /\ _ratings' = LoadRatings
               /\ _last_refresh' = Refreshed(_last_refresh, "ratings")
    /\ ret' = Ret("get_rating_summary", filename, 0, "ok", Summary(_ratings', filename))
    /\ Counted(<<_is_cache_valid("ratings")>>)
    /\ UNCHANGED <<besideReads, listVars, _popular_tags, store_ratings, viewVars,
                   favVars, tagVars, held>>

(* the ratings table after the INSERT OR REPLACE of set_rating; wfail: the
   write raises, which set_rating catches and prints *)
ServiceWrite(filename, value, wfail) ==
    IF wfail THEN store_ratings ELSE Put(store_ratings, filename, value)

(* self.cache.invalidate_ratings() in set_rating, on the cached ratings and
   their timestamps *)
ServiceInvalidate(entry) ==
    [lr |-> Zeroed(entry.lr, "ratings"), cached |-> EmptyMap]

(* set_rating(media_hash, value): how it ends and the state it leaves.
   rfail: the reload of the ratings by get_rating_summary raises.
   reads: the was_valid of the category reads that completed. *)
SetRating(filename, value, wfail, rfail) ==
    IF value < 1 \/ value > 5
    THEN [outcome |-> "ValueError", store |-> store_ratings, cached |-> _ratings,
          lr |-> _last_refresh, summary |-> Summary(EmptyMap, filename),
          committed |-> FALSE, reads |-> <<>>]
    ELSE IF filename \notin disk
    THEN [outcome |-> "FileNotFoundError", store |-> store_ratings,
          cached |-> _ratings, lr |-> _last_refresh,
          summary |-> Summary(EmptyMap, filename), committed |-> FALSE,
          reads |-> <<>>]
    ELSE LET written == ServiceWrite(filename, value, wfail)
             entry == ServiceInvalidate([lr |-> _last_refresh, cached |-> _ratings])
             stale == ~((now - entry.lr["ratings"]) < Ttl("ratings") * Res)
         IN  IF stale /\ rfail
             THEN [outcome |-> "BackendError", store |-> written,
                   cached |-> entry.cached, lr |-> entry.lr,
                   summary |-> Summary(EmptyMap, filename), committed |-> ~wfail,
                   reads |-> <<>>]
             ELSE LET cached == IF stale THEN written ELSE entry.cached
                  IN  [outcome |-> "ok", store |-> written, cached |-> cached,
                       lr |-> IF stale THEN [entry.lr EXCEPT !["ratings"] = now]
                              ELSE entry.lr,
                       summary |-> Summary(cached, filename), committed |-> ~wfail,
                       reads |-> <<~stale>>]

set_rating(filename, value, wfail, rfail) ==
    LET r == SetRating(filename, value, wfail, rfail)
    IN  /\ use_database
        /\ store_ratings' = r.store
        /\ _ratings' = r.cached
        /\ _last_refresh' = r.lr
        /\ ret' = Ret("set_rating", filename, value, r.outcome,
                      [summary |-> r.summary, committed |-> r.committed])
        /\ Counted(r.reads)
        /\ UNCHANGED <<besideReads, listVars, _popular_tags, viewVars, favVars,
                       tagVars, held>>

----------------------------------------------------------------------------
(* PerformanceMetrics (src/backend/app/admin/performance.py) *)

(* the age ceiling of a deque, in seconds *)
MAX_WINDOW_SECONDS == 3600

(* the count ceiling of a deque: 500 in the source, a deque of two in the
   model; no step of the recorder depends on the value otherwise *)
MAX_SAMPLES_PER_ROUTE == 2

(* how many samples the recorder is given in one behaviour *)
MaxSamples == 4

RATINGS_POST == "POST /api/ratings"
Routes == {RATINGS_POST, "GET /watch"}

(* f"{request.method} {path}" of a POST to the rule of set_rating, the
   blueprint's url_prefix followed by the rule of the route *)
RATINGS_RULE == "POST /api/ratings/<path:media_hash>"

(* route_key.startswith("POST") and "/api/ratings" in route_key *)
IsRatingsPost(route_key) == route_key \in {RATINGS_POST, RATINGS_RULE}

(* the dict built by record_endpoint_latency; the latency is given in
   milliseconds, duration_ms = max(latency_seconds * 1000.0, 0.0) *)
Sample(endpoint, latency_ms, status_code, timestamp) ==
    [route_key |-> endpoint, duration_ms |-> Max(latency_ms, 0),
     status_code |-> status_code, timestamp |-> timestamp]

(* while dq and dq[0]["timestamp"] < cutoff: dq.popleft() *)
RECURSIVE PopOld(_, _)
PopOld(dq, cutoff) ==
    IF dq # <<>> /\ dq[1].timestamp < cutoff
    THEN PopOld(Tail(dq), cutoff)
    ELSE dq

(* while len(dq) > MAX_SAMPLES_PER_ROUTE: dq.popleft() *)
RECURSIVE PopOver(_, _)
PopOver(dq, cap) ==
    IF Len(dq) > cap THEN PopOver(Tail(dq), cap) ELSE dq

(* a recorder that never drops a sample for the count *)
PruneCount_Keep(dq) == dq

PruneCount(dq) == PopOver(dq, MAX_SAMPLES_PER_ROUTE)

_prune_deque(dq, t) ==
    PruneCount(PopOld(dq, t - MAX_WINDOW_SECONDS * Res))

(* the body of `with self.lock:` in record_endpoint_latency, run at time t
   on the deques m *)
StoreSampleIn(m, sample, t) ==
    LET key == sample.route_key
    IN  [route_samples |->
             Put(m.route_samples, key,
                 _prune_deque(Append(Get(m.route_samples, key, <<>>), sample), t)),
         global_samples |-> _prune_deque(Append(m.global_samples, sample), t),
         ratings_post_latencies |->
             IF IsRatingsPost(key)
             THEN PopOver(Append(m.ratings_post_latencies, sample.duration_ms),
                          MAX_SAMPLES_PER_ROUTE)
             ELSE m.ratings_post_latencies]

(* the deques of the recorder *)
Deques ==
    [route_samples |-> route_samples, global_samples |-> global_samples,
     ratings_post_latencies |-> ratings_post_latencies]

StoreSample(sample, t) == StoreSampleIn(Deques, sample, t)

Stored(sample, t) ==
    LET m == StoreSample(sample, t)
    IN  /\ route_samples' = m.route_samples
        /\ global_samples' = m.global_samples
        /\ ratings_post_latencies' = m.ratings_post_latencies
        /\ appended' = Append(appended, [sample |-> sample, at |-> t])

(* the samples stamped and not yet stored *)
Stamped == {t \in Threads : recorders[t].pc = "stamped"}

(* record_endpoint_latency up to the lock: timestamp = time.time() and the
   sample are made before the thread asks for self.lock *)
record_stamp(t, endpoint, latency_ms, status_code) ==
    /\ recorders[t].pc = "idle"
    /\ Len(appended) + Cardinality(Stamped) < MaxSamples
    /\ recorders' = [recorders EXCEPT ![t] =
                        [pc |-> "stamped",
                         sample |-> Sample(endpoint, latency_ms, status_code, now)]]
    /\ ret' = Ret("record_stamp", endpoint, latency_ms, "ok", 0)
    /\ UNCHANGED <<cfgVars, now, cacheVars, limiterVars, threadVars, sampleVars,
                   _SNAPSHOT_CACHE, perf_monitor, counterVars>>

(* record_endpoint_latency under self.lock *)
record_store(t) ==
    /\ recorders[t].pc = "stamped"
    /\ Stored(recorders[t].sample, now)
    /\ recorders' = [recorders EXCEPT ![t] = Idle]
    /\ ret' = Ret("record_endpoint_latency", recorders[t].sample.route_key,
                  recorders[t].sample.duration_ms, "ok", 0)
    /\ UNCHANGED <<cfgVars, now, cacheVars, limiterVars, threadVars, _SNAPSHOT_CACHE,
                   perf_monitor, counterVars>>

(* sorted(data) *)
RECURSIVE InsertSorted(_, _)
InsertSorted(x, sorted) ==
    IF sorted = <<>> THEN <<x>>
    ELSE IF x <= Head(sorted) THEN <<x>> \o sorted
    ELSE <<Head(sorted)>> \o InsertSorted(x, Tail(sorted))

(* a quantile taken over the values as they come *)
SortValues_Asis(values) == values

RECURSIVE SortValues(_)
SortValues(values) ==
    IF values = <<>> THEN <<>>
    ELSE InsertSorted(Head(values), SortValues(Tail(values)))

(* statistics.quantiles(values, n), method 'exclusive': the i-th of the n - 1
   cut points, as a number of n-ths (the source divides by n at the end) *)
Quantile(values, n, i) ==
    LET data == SortValues(values)
        ld == Len(data)
        m == ld + 1
        j0 == (i * m) \div n
        j == IF j0 < 1 THEN 1 ELSE IF j0 > ld - 1 THEN ld - 1 ELSE j0
        delta == i * m - j * n
    IN  data[j] * (n - delta) + data[j + 1] * delta

(* the values are milliseconds; the result is in hundredths of a millisecond *)
_get_latency_percentiles(values) ==
    IF values = <<>> THEN <<0, 0, 0>>
    ELSE IF Len(values) = 1
    THEN <<values[1] * 100, values[1] * 100, values[1] * 100>>
    ELSE <<Quantile(values, 100, 50), Quantile(values, 100, 95),
           Quantile(values, 100, 99)>>

(* a caller asks for the percentiles of a list of latencies *)
latency_percentiles(values) ==
    /\ ret' = Ret("_get_latency_percentiles", "", values, "ok",
                  _get_latency_percentiles(values))
    /\ UNCHANGED <<cfgVars, now, cacheVars, limiterVars, threadVars, metricVars>>

----------------------------------------------------------------------------
(* Admin snapshot (src/performance_monitor.py) *)

SNAPSHOT_TTL_SECONDS == 2
ALLOWED_WINDOWS == {300, 900, 3600}

(* [s for s in dq if s["timestamp"] >= cutoff] *)
Within(dq, cutoff) ==
    LET Young(s) == s.timestamp >= cutoff
    IN  SelectSeq(dq, Young)

Durations(samples) == [i \in 1..Len(samples) |-> samples[i].duration_ms]

IsError(s) == s.status_code >= 500

(* request count, error count and percentiles of some samples *)
Aggregate(samples) ==
    LET p == _get_latency_percentiles(Durations(samples))
    IN  [request_count |-> Len(samples),
         error_count |-> Len(SelectSeq(samples, IsError)),
         p50_latency_ms |-> p[1], p95_latency_ms |-> p[2], p99_latency_ms |-> p[3]]

_global_metrics(window, t) == Aggregate(Within(global_samples, t - window * Res))

(* an Optional value: None is the empty set, a value v is {v} *)
None == {}
Some(v) == {v}

(* the samples of the POST /api/ratings routes; None when there is none *)
_ratings_metrics(window, t) ==
    LET samples == Within(Get(route_samples, RATINGS_POST, <<>>), t - window * Res)
    IN  IF samples = <<>> THEN None ELSE Some(Aggregate(samples))

(* get_route_metrics(...)["routes"]: one entry for each route with samples in
   the window; the entries as a set, their order is not modelled *)
get_route_metrics(window, t) ==
    {[name |-> key,
      metrics |-> Aggregate(Within(route_samples[key], t - window * Res))]
       : key \in {k \in DOMAIN route_samples :
                     Within(route_samples[k], t - window * Res) # <<>>}}

(* get_worker_metrics(), which carries a generated_at, or the placeholder,
   which carries none; both say "disabled" *)
WorkerMetrics(include_workers, t) ==
    [worker_count |-> 0, status |-> "disabled",
     generated_at |-> IF include_workers THEN Some(t) ELSE None]

(* the payload built by get_performance_snapshot at time t *)
Snapshot(window, include_routes, include_workers, t) ==
    [generated_at |-> t,
     window_seconds |-> window,
     uptime_seconds |-> t - StartTime,
     global |-> _global_metrics(window, t),
     ratings |-> _ratings_metrics(window, t),
     workers |-> WorkerMetrics(include_workers, t),
     routes |-> IF include_routes THEN Some(get_route_metrics(window, t))
                ELSE None]

(* a memo that never runs out *)
Memoized_Forever(cache_key, t) == cache_key \in DOMAIN _SNAPSHOT_CACHE

(* cached and (now - cached[0]) < SNAPSHOT_TTL_SECONDS *)
Memoized(cache_key, t) ==
    /\ cache_key \in DOMAIN _SNAPSHOT_CACHE
    /\ (t - _SNAPSHOT_CACHE[cache_key].at) < SNAPSHOT_TTL_SECONDS * Res

get_performance_snapshot(window, include_routes, include_workers) ==
    LET cache_key == <<window, include_routes, include_workers>>
        snapshot == Snapshot(window, include_routes, include_workers, now)
    IN  /\ IF window \notin ALLOWED_WINDOWS
           THEN /\ ret' = Ret("get_performance_snapshot", "", cache_key,
                              "ValueError", 0)
                /\ UNCHANGED _SNAPSHOT_CACHE
           ELSE IF Memoized(cache_key, now)
           THEN /\ ret' = Ret("get_performance_snapshot", "", cache_key, "ok",
                              _SNAPSHOT_CACHE[cache_key].snapshot)
                /\ UNCHANGED _SNAPSHOT_CACHE
           ELSE /\ _SNAPSHOT_CACHE' =
                      Put(_SNAPSHOT_CACHE, cache_key,
                          [at |-> now, snapshot |-> snapshot])
                /\ ret' = Ret("get_performance_snapshot", "", cache_key, "ok",
                              snapshot)
        /\ UNCHANGED <<cfgVars, now, cacheVars, limiterVars, threadVars, sampleVars,
                       recorders, perf_monitor, counterVars>>

----------------------------------------------------------------------------
(* POST /api/ratings/<media_hash> (src/backend/app/api/ratings.py) *)

(* RatingInput(value=value): Field(ge=1, le=5) *)
RatingInputValid(value) == value >= 1 /\ value <= 5

Status(outcome) ==
    CASE outcome = "ok" -> 201
      [] outcome = "ValueError" -> 400
      [] outcome = "FileNotFoundError" -> 404
      [] OTHER -> 500

(* a handler that never turns a request away *)
Throttled_Never(rate) == FALSE

(* allowed, rate_info = rate_limiter.is_allowed(client_ip); if not allowed: *)
Throttled(rate) == ~rate.allowed

(* every answer but the 429 is followed by
   get_metrics().record_endpoint_latency('POST /api/ratings', latency), with
   the default status_code of 200; the handler takes no time in the model *)

post_rating(client_ip, media_hash, value, wfail, rfail) ==
    LET rate == IsAllowed(client_ip, now)
        r == SetRating(media_hash, value, wfail, rfail)
    IN  /\ use_database
        /\ requests' = rate.requests
        /\ NoteCall(client_ip, now, rate.allowed)
        /\ IF Throttled(rate)
           THEN /\ ret' = Ret("post_rating", media_hash, value, "RateLimited",
                              [client_ip |-> client_ip, status |-> 429,
                               retry_after |-> rate.reset_in,
                               summary |-> Summary(EmptyMap, media_hash),
                               committed |-> FALSE])
                /\ UNCHANGED <<ratingVars, _last_refresh, sampleVars>>
           ELSE IF ~RatingInputValid(value)
           THEN /\ ret' = Ret("post_rating", media_hash, value, "ValidationError",
                              [client_ip |-> client_ip, status |-> 400,
                               retry_after |-> 0,
                               summary |-> Summary(EmptyMap, media_hash),
                               committed |-> FALSE])
                /\ Stored(Sample(RATINGS_POST, 0, 200, now), now)
                /\ UNCHANGED <<ratingVars, _last_refresh>>
           ELSE /\ store_ratings' = r.store
                /\ Stored(Sample(RATINGS_POST, 0, 200, now), now)
                /\ _ratings' = r.cached
                /\ _last_refresh' = r.lr
                /\ ret' = Ret("post_rating", media_hash, value, r.outcome,
                              [client_ip |-> client_ip,
                               status |-> Status(r.outcome), retry_after |-> 0,
                               summary |-> r.summary, committed |-> r.committed])
        /\ Counted(IF ~Throttled(rate) /\ RatingInputValid(value) THEN r.reads ELSE <<>>)
        /\ UNCHANGED <<cfgVars, recorders, _SNAPSHOT_CACHE, perf_monitor, threadVars, now,
                       limiterCfg,
                       viewVars, favVars, tagVars, _popular_tags, listVars, held>>

(* A POST /api/ratings request on the app of main.py, which installs
   flask_route_monitor: set_rating answers as above, then after_request gives
   the recorder a sample of its own through monitor.record_route_time, with
   the status of the response and the route key made of the method and the
   rule. *)
app_post_rating(client_ip, media_hash, value, wfail, rfail) ==
    LET rate == IsAllowed(client_ip, now)
        r == SetRating(media_hash, value, wfail, rfail)
        handled == ~Throttled(rate) /\ RatingInputValid(value)
        outcome == IF Throttled(rate) THEN "RateLimited"
                   ELSE IF ~RatingInputValid(value) THEN "ValidationError"
                   ELSE r.outcome
        status == IF Throttled(rate) THEN 429
                  ELSE IF ~RatingInputValid(value) THEN 400
                  ELSE Status(r.outcome)
        own == Sample(RATINGS_POST, 0, 200, now)
        hooked == Sample(RATINGS_RULE, 0, status, now)
        answered == IF Throttled(rate) THEN Deques ELSE StoreSampleIn(Deques, own, now)
        after_request == StoreSampleIn(answered, hooked, now)
    IN  /\ use_database
        /\ requests' = rate.requests
        /\ NoteCall(client_ip, now, rate.allowed)
        /\ store_ratings' = (IF handled THEN r.store ELSE store_ratings)
        /\ _ratings' = (IF handled THEN r.cached ELSE _ratings)
        /\ _last_refresh' = (IF handled THEN r.lr ELSE _last_refresh)
        /\ route_samples' = after_request.route_samples
        /\ global_samples' = after_request.global_samples
        /\ ratings_post_latencies' = after_request.ratings_post_latencies
        /\ appended' = appended
                           \o (IF Throttled(rate) THEN <<>>
                               ELSE <<[sample |-> own, at |-> now]>>)
                           \o <<[sample |-> hooked, at |-> now]>>
        /\ ret' = Ret("app_post_rating", media_hash, value, outcome,
                      [client_ip |-> client_ip, status |-> status,
                       retry_after |-> IF Throttled(rate) THEN rate.reset_in ELSE 0,
                       summary |-> IF handled THEN r.summary
                                   ELSE Summary(EmptyMap, media_hash),
                       committed |-> handled /\ r.committed])
        /\ Counted(IF handled THEN r.reads ELSE <<>>)
        /\ UNCHANGED <<cfgVars, recorders, _SNAPSHOT_CACHE, perf_monitor, threadVars, now,
                       limiterCfg,
                       viewVars, favVars, tagVars, _popular_tags, listVars, held>>

----------------------------------------------------------------------------
(* The state after construction: the backend holds some data, and __init__
   ended with refresh_all(), so every category is loaded and fresh. *)

----------------------------------------------------------------------------
(* DatabaseSession.execute_with_retry (src/backend/app/core/db.py)         *)
(*                                                                         *)
(* str(e) is a list of words, so that `"database is locked" in str(e)` is  *)
(* a search for one list inside another.  A sleep of 0.1 * 2^k s is counted *)
(* in tenths of a second; the clock keeps the part of a tick it has run in  *)
(* executing.frac, in units of 1/(10 * Res) s.                              *)

(* the largest max_retries passed, and how long after the start a call may begin *)
MaxRetries == 4
RetryHorizon == 3

LOCKED == <<"database", "is", "locked">>
TABLE_LOCKED == <<"database", "table", "is", "locked">>
NO_TABLE == <<"no", "such", "table:", "videos">>
NOT_UNIQUE == <<"UNIQUE", "constraint", "failed">>

(* needle in text *)
HasWords(needle, text) ==
    \E i \in 0..(Len(text) - Len(needle)) : SubSeq(text, i + 1, i + Len(needle)) = needle

(* what one attempt ends in: the rows of cursor.fetchall(), or an exception *)
Fetched(rows) == [type |-> "rows", msg |-> <<>>, rows |-> rows]
Raised(type, msg) == [type |-> type, msg |-> msg, rows |-> <<>>]

RuntimeError == Raised("RuntimeError", <<"execute_with_retry", "failed", "unexpectedly">>)

AttemptOutcomes ==
    {Fetched(<<>>), Fetched(<<1>>),
     Raised("OperationalError", LOCKED), Raised("OperationalError", TABLE_LOCKED),
     Raised("OperationalError", NO_TABLE), Raised("IntegrityError", NOT_UNIQUE)}

(* except sqlite3.OperationalError as e: if "database is locked" in str(e) *)
IsLocked(e) == e.type = "OperationalError" /\ HasWords(LOCKED, e.msg)

(* a back-off that grows by 0.1 s with every attempt *)
wait_time_Linear(attempt) == attempt + 1

(* wait_time = 0.1 * (2 ** attempt), in tenths of a second *)
wait_time(attempt) == 2 ^ attempt

Executing(pc, max_retries, attempt, last_error, tried, slept, began, frac) ==
    [pc |-> pc, max_retries |-> max_retries, attempt |-> attempt,
     last_error |-> last_error, tried |-> tried, slept |-> slept, began |-> began,
     frac |-> frac]

NotExecuting == Executing("idle", 0, 0, {}, <<>>, <<>>, 0, 0)

(* the call is over: its locals are gone, the clock keeps its fraction *)
Returned == [NotExecuting EXCEPT !.frac = executing.frac]

RetryResult(outcome) ==
    [outcome |-> outcome, tried |-> executing.tried, slept |-> executing.slept,
     began |-> executing.began]

(* last_error = None; for attempt in range(max_retries): *)
execute_with_retry(max_retries) ==
    /\ executing.pc = "idle"
    /\ now <= StartTime + RetryHorizon
    /\ executing' = Executing(IF 0 < max_retries THEN "try" ELSE "end", max_retries, 0,
                              {}, <<>>, <<>>, 10 * now + executing.frac, executing.frac)
    /\ ret' = Ret("execute_with_retry", "", max_retries, "call", 0)
    /\ UNCHANGED <<cfgVars, now, cacheVars, limiterVars, _lock, readers, lock, workers,
                   singletonVars, metricVars>>

(* with self.get_session() as conn: execute, commit, return cursor.fetchall();
   except sqlite3.OperationalError: remember a locked database, raise the rest *)
execute_attempt(outcome) ==
    LET tried == Append(executing.tried, outcome)
    IN  /\ executing.pc = "try"
        /\ IF IsLocked(outcome)
           THEN /\ executing' = [executing EXCEPT !.pc = "sleep", !.last_error = {outcome},
                                                  !.tried = tried]
                /\ ret' = Ret("execute_with_retry", "", executing.max_retries, "locked", 0)
           ELSE /\ executing' = Returned
                /\ ret' = Ret("execute_with_retry", "", executing.max_retries,
                              IF outcome.type = "rows" THEN "ok" ELSE "raise",
                              [RetryResult(outcome) EXCEPT !.tried = tried])
        /\ UNCHANGED <<cfgVars, now, cacheVars, limiterVars, _lock, readers, lock,
                       workers, singletonVars, metricVars>>

(* time.sleep(wait_time), then the next attempt of the loop or its end *)
execute_sleep ==
    LET units == executing.frac + Res * wait_time(executing.attempt)
        attempt == executing.attempt + 1
    IN  /\ executing.pc = "sleep"
        /\ now' = now + (units \div 10)
        /\ executing' = [executing EXCEPT
                            !.pc = IF attempt < executing.max_retries THEN "try" ELSE "end",
                            !.attempt = attempt,
                            !.slept = Append(@, wait_time(executing.attempt)),
                            !.frac = units % 10]
        /\ ret' = Ret("execute_with_retry", "", executing.max_retries, "slept", 0)
        /\ UNCHANGED <<cfgVars, cacheVars, limiterVars, _lock, readers, lock, workers,
                       singletonVars, metricVars>>

(* if last_error: raise last_error; raise RuntimeError(...) *)
execute_exhausted ==
    /\ executing.pc = "end"
    /\ executing' = Returned
    /\ ret' = Ret("execute_with_retry", "", executing.max_retries, "raise",
                  RetryResult(IF executing.last_error # {}
                              THEN CHOOSE e \in executing.last_error : TRUE
                              ELSE RuntimeError))
    /\ UNCHANGED <<cfgVars, now, cacheVars, limiterVars, _lock, readers, lock, workers,
                   singletonVars, metricVars>>

(* ---- get_metrics / get_rate_limiter: the lazily made module globals ----
   An instance is named after the thread whose call constructed it. The
   sample and limiter variables above describe the instance a caller holds. *)
Getters == {"get_metrics", "get_rate_limiter"}

Getting(pc, getter, got) == [pc |-> pc, getter |-> getter, got |-> got]

NotGetting == Getting("idle", "", [g \in Getters |-> "None"])

(* the module global the getter reads and assigns *)
Global(getter) == IF getter = "get_metrics" THEN _metrics ELSE _rate_limiter

(* a thread enters get_metrics() or get_rate_limiter(...) *)
singleton_call(t, getter) ==
    /\ getting[t].pc = "idle"
    /\ getting' = [getting EXCEPT ![t].pc = "test", ![t].getter = getter]
    /\ ret' = Ret(getter, t, 0, "call", 0)
    /\ UNCHANGED <<cfgVars, now, cacheVars, limiterVars, _lock, readers, lock, workers,
                   executing, _metrics, _rate_limiter, metricVars>>

(* if _metrics is None: / if _rate_limiter is None: *)
singleton_test(t) ==
    /\ getting[t].pc = "test"
    /\ getting' = [getting EXCEPT
                      ![t].pc = IF Global(getting[t].getter) = "None" THEN "make"
                                ELSE "return"]
    /\ ret' = Ret(getting[t].getter, t, 0, "test", Global(getting[t].getter))
    /\ UNCHANGED <<cfgVars, now, cacheVars, limiterVars, _lock, readers, lock, workers,
                   executing, _metrics, _rate_limiter, metricVars>>

(* _metrics = PerformanceMetrics() / _rate_limiter = RateLimiter(...) *)
singleton_make(t) ==
    /\ getting[t].pc = "make"
    /\ IF getting[t].getter = "get_metrics"
       THEN _metrics' = t /\ UNCHANGED _rate_limiter
       ELSE _rate_limiter' = t /\ UNCHANGED _metrics
    /\ getting' = [getting EXCEPT ![t].pc = "return"]
    /\ ret' = Ret(getting[t].getter, t, 0, "make", t)
    /\ UNCHANGED <<cfgVars, now, cacheVars, limiterVars, _lock, readers, lock, workers,
                   executing, metricVars>>

(* return _metrics / return _rate_limiter: the global is read once more *)
singleton_return(t) ==
    LET getter == getting[t].getter
    IN  /\ getting[t].pc = "return"
        /\ getting' = [getting EXCEPT ![t].pc = "idle",
                                      ![t].got[getter] = Global(getter)]
        /\ ret' = Ret(getter, t, 0, "ok", Global(getter))
        /\ UNCHANGED <<cfgVars, now, cacheVars, limiterVars, _lock, readers, lock,
                       workers, executing, _metrics, _rate_limiter, metricVars>>

InitRatingMaps == {EmptyMap, [f \in {"a"} |-> 4]}
InitViewMaps == {EmptyMap, [f \in {"a"} |-> 2]}
InitTagMaps == {EmptyMap, [f \in {"a"} |-> <<"#x">>]}
InitFavorites == {<<>>, <<"a">>}

(* the favorites table holding the list favs, written long ago *)
FavoritesTable(favs) == [f \in Range(favs) |-> 0]

(* cache_manager could not import performance_monitor (it needs psutil):
   perf_monitor is None and nothing is counted *)
Unmonitored ==
    /\ perf_monitor = "None"
    /\ cache_hits = 0
    /\ cache_misses = 0
    /\ cache_stats = [hits |-> 0, misses |-> 0, total_requests |-> 0]

(* the import succeeded: the refresh_all() of __init__ was counted *)
Monitored ==
    /\ perf_monitor = "monitor"
    /\ cache_hits = (IF use_database THEN 0 ELSE 1)
    /\ cache_misses = Cardinality(Categories \ {"popular_tags"})
    /\ cache_stats = [hits |-> cache_hits, misses |-> cache_misses,
                      total_requests |-> cache_hits + cache_misses]

InitLoaded ==
    /\ use_database \in BOOLEAN
    /\ disk \in {Ids, {"a"}}
    /\ db = (IF use_database THEN "VideoDatabase" ELSE "None")
    /\ now = StartTime
    /\ store_ratings \in InitRatingMaps
    /\ store_views \in InitViewMaps
    /\ store_tags \in InitTagMaps
    /\ \E favs \in InitFavorites :
          /\ store_favorites = (IF use_database THEN FavoritesTable(favs) ELSE favs)
          /\ _favorites = favs
    /\ _ratings = store_ratings
    /\ _views = store_views
    /\ _tags = AllocRefs(DOMAIN store_tags, Refs)
    /\ heap = [r \in Refs |->
                  IF \E f \in DOMAIN _tags : _tags[f] = r
                  THEN store_tags[CHOOSE f \in DOMAIN _tags : _tags[f] = r]
                  ELSE <<>>]
    /\ _popular_tags \in PopularRankings(store_tags)
    /\ held = NoHeld
    /\ _last_refresh = [c \in Categories |-> StartTime]
    /\ store_videos = (IF use_database THEN disk ELSE {})
    /\ ensured = <<>>
    /\ _video_list \in LoadVideoList
    /\ _video_metadata = EmptyMap
    /\ requests = EmptyMap
    /\ burst = [ip \in Keys |-> NoBurst]
    /\ admitted = [ip \in Keys |-> <<>>]
    /\ _lock = "none"
    /\ readers = [t \in Threads |-> Idle]
    /\ lock = "none"
    /\ workers = [t \in Threads |-> Idle]
    /\ executing = NotExecuting
    /\ _metrics = "None"
    /\ _rate_limiter = "None"
    /\ getting = [t \in Threads |-> NotGetting]
    /\ route_samples = EmptyMap
    /\ global_samples = <<>>
    /\ ratings_post_latencies = <<>>
    /\ appended = <<>>
    /\ recorders = [t \in Threads |-> Idle]
    /\ _SNAPSHOT_CACHE = EmptyMap
    /\ ret = Ret("init", "", 0, "ok", 0)

InitCache == InitLoaded /\ Unmonitored

----------------------------------------------------------------------------
(* SpecRatings: the ratings category of VideoCache on either backend, with
   RatingsService on the database backend. *)

CacheSteps == {cache_ttl * Res - 1, cache_ttl * Res}
RatingInputs == {0, 3, 6}

InitRatings ==
    /\ InitCache
    /\ store_views = EmptyMap
    /\ store_tags = EmptyMap
    /\ _favorites = <<>>
    /\ max_requests = 5
    /\ window_seconds = 10

NextRatings ==
    \/ get_ratings
    \/ \E f \in Ids, r \in RatingInputs, fail \in BOOLEAN : update_rating(f, r, fail)
    \/ invalidate_ratings
    \/ refresh_all
    \/ \E f \in Ids : get_rating_summary(f)
    \/ \E f \in Ids, v \in RatingInputs, wfail \in BOOLEAN, rfail \in BOOLEAN :
          set_rating(f, v, wfail, rfail)
    \/ \E d \in CacheSteps : Tick(d, CacheHorizon * Res)

SpecRatings == InitRatings /\ [][NextRatings]_vars

----------------------------------------------------------------------------
(* SpecViews: the views category of VideoCache on either backend. *)

InitViews ==
    /\ InitCache
    /\ disk = Ids
    /\ store_ratings = EmptyMap
    /\ store_tags = EmptyMap
    /\ _favorites = <<>>
    /\ max_requests = 5
    /\ window_seconds = 10

NextViews ==
    \/ get_views
    \/ \E f \in Ids, fail \in BOOLEAN : update_view(f, fail)
    \/ invalidate_views
    \/ refresh_all
    \/ \E d \in CacheSteps : Tick(d, CacheHorizon * Res)

SpecViews == InitViews /\ [][NextViews]_vars

----------------------------------------------------------------------------
(* SpecTags: the tags category of VideoCache and the callers that change what
   a read returned. *)

NewTagLists == {<<>>, <<"#y">>}
(* the ids whose tags are written *)
TagIds == {"a"}
MaxBackendCalls == 3

InitTags ==
    /\ InitCache
    /\ disk = Ids
    /\ store_views = EmptyMap
    /\ _favorites = <<>>
    /\ max_requests = 5
    /\ window_seconds = 10

NextTags ==
    \/ get_tags
    \/ get_ratings
    \/ \E f \in TagIds, done \in 0..MaxBackendCalls : update_tags_held(f, done)
    \/ \E f \in TagIds, tags \in NewTagLists, done \in 0..MaxBackendCalls :
          update_tags_new(f, tags, done)
    \/ invalidate_tags
    \/ \E f \in TagIds, t \in Tags : client_append(f, t)
    \/ \E f \in TagIds : client_del_key(f)
    \/ \E f \in Ids : client_del_copy(f)
    \/ client_drop

SpecTags == InitTags /\ [][NextTags]_vars

----------------------------------------------------------------------------
(* SpecFavorites: the favorites and the video list of VideoCache. *)

InitFavoritesSpec ==
    /\ InitCache
    /\ store_ratings = EmptyMap
    /\ store_views = EmptyMap
    /\ store_tags = EmptyMap
    /\ max_requests = 5
    /\ window_seconds = 10

NextFavorites ==
    \/ get_favorites
    \/ \E favorites \in ListsOver(Ids), done \in 0..MaxBackendCalls :
          update_favorites(favorites, done)
    \/ invalidate_favorites
    \/ get_video_list
    \/ invalidate_video_list
    \/ refresh_all
    \/ \E d \in CacheSteps : Tick(d, CacheHorizon * Res)

SpecFavorites == InitFavoritesSpec /\ [][NextFavorites]_vars

----------------------------------------------------------------------------
(* SpecReaders: threads reading the ratings and the video list while time
   passes. *)

ReadKeys == {"ratings", "video_list"}
ReaderSteps == {video_list_ttl * Res - 1, video_list_ttl * Res,
                (cache_ttl - video_list_ttl) * Res}

InitReaders ==
    /\ InitCache
    /\ disk = Ids
    /\ store_ratings = [f \in {"a"} |-> 4]
    /\ store_views = EmptyMap
    /\ store_tags = EmptyMap
    /\ _favorites = <<>>
    /\ max_requests = 5
    /\ window_seconds = 10

NextReaders ==
    \/ \E t \in Threads, cache_key \in ReadKeys : read_call(t, cache_key)
    \/ \E t \in Threads : read_enter(t)
    \/ \E t \in Threads : read_check(t)
    \/ \E t \in Threads : read_reload(t)
    \/ \E t \in Threads : read_return(t)
    \/ \E d \in ReaderSteps : Tick(d, CacheHorizon * Res)

SpecReaders == InitReaders /\ [][NextReaders]_vars

----------------------------------------------------------------------------
(* The limiter specifications.  Time advances by half a window or by a window
   less one tick. *)

MaxBurst == 7
RateHalfWindows == 2
RateConfigs == {<<5, 10>>, <<2, 1>>}

RateSteps == {(window_seconds * Res) \div 2, window_seconds * Res - 1}
RateHorizon == RateHalfWindows * ((window_seconds * Res) \div 2)

(* the cache idle on the database backend, the limiter new *)
InitLimiter ==
    /\ InitCache
    /\ use_database
    /\ disk = Ids
    /\ store_views = EmptyMap
    /\ store_tags = EmptyMap
    /\ _favorites = <<>>

(* SpecRate: one RateLimiter called by one thread. *)
InitRate ==
    /\ InitLimiter
    /\ store_ratings = EmptyMap
    /\ \E c \in RateConfigs : max_requests = c[1] /\ window_seconds = c[2]

NextRate ==
    \/ \E ip \in Keys : burst[ip].k < MaxBurst /\ is_allowed(ip)
    \/ \E ip \in Keys : get_stats(ip)
    \/ \E ip \in Keys : reset(ip)
    \/ reset_all
    \/ \E d \in RateSteps : Tick(d, RateHorizon)

SpecRate == InitRate /\ [][NextRate]_vars

(* SpecRateConc: threads calling is_allowed and get_stats of one RateLimiter
   of two requests per second, never reset. *)
InitRateConc ==
    /\ InitLimiter
    /\ store_ratings = EmptyMap
    /\ max_requests = 2
    /\ window_seconds = 1

NextRateConc ==
    \/ \E t \in Threads, op \in {"is_allowed", "get_stats"}, ip \in Keys :
          rl_call(t, op, ip)
    \/ \E t \in Threads : rl_enter(t)
    \/ \E t \in Threads : rl_purge(t)
    \/ \E t \in Threads : rl_count(t)
    \/ \E t \in Threads : rl_record(t)
    \/ \E d \in RateSteps : Tick(d, RateHorizon)

SpecRateConc == InitRateConc /\ [][NextRateConc]_vars

(* SpecApi: POST /api/ratings behind the limiter of the module,
   get_rate_limiter(max_requests=5, window_seconds=10). *)
api_max_requests == 5
api_window_seconds == 10

InitApi ==
    /\ InitLimiter
    /\ max_requests = api_max_requests
    /\ window_seconds = api_window_seconds

ApiKeys == {"ip1"}
ApiValues == {3, 6}

NextApi ==
    \/ \E ip \in ApiKeys, f \in Ids, v \in ApiValues, wfail \in BOOLEAN,
          rfail \in BOOLEAN :
          burst[ip].k < MaxBurst /\ post_rating(ip, f, v, wfail, rfail)
    \/ \E f \in Ids : get_rating_summary(f)
    \/ \E d \in RateSteps : Tick(d, RateHorizon)

SpecApi == InitApi /\ [][NextApi]_vars

(* SpecApp: POST /api/ratings requests on the app of main.py, the route
   monitor installed. *)
AppIds == {"a", "gone"}

NextApp ==
    \/ \E ip \in ApiKeys, f \in AppIds, v \in ApiValues, rfail \in BOOLEAN :
          burst[ip].k < MaxBurst /\ app_post_rating(ip, f, v, FALSE, rfail)
    \/ Tick(window_seconds * Res - 1, RateHorizon)

SpecApp == InitApi /\ [][NextApp]_vars

(* SpecCounters: the category reads of a cache that was constructed with
   the monitor imported, the entries expiring and being invalidated, the
   statistics of the monitor being reset. *)
MaxReads == 9

InitCounters ==
    /\ InitLoaded
    /\ Monitored
    /\ disk = Ids
    /\ store_ratings = EmptyMap
    /\ store_views = EmptyMap
    /\ store_tags = EmptyMap
    /\ _favorites = <<>>
    /\ _popular_tags = <<>>
    /\ max_requests = api_max_requests
    /\ window_seconds = api_window_seconds

NextCounters ==
    \/ cache_hits + cache_misses < MaxReads /\ get_ratings
    \/ cache_hits + cache_misses < MaxReads /\ get_views
    \/ cache_hits + cache_misses < MaxReads /\ get_tags
    \/ cache_hits + cache_misses < MaxReads /\ get_favorites
    \/ cache_hits + cache_misses < MaxReads /\ get_video_list
    \/ invalidate_ratings
    \/ reset_stats
    \/ metrics_get_cache_hit_rate
    \/ monitor_get_cache_hit_rate
    \/ \E d \in CacheSteps : Tick(d, CacheHorizon * Res)

SpecCounters == InitCounters /\ [][NextCounters]_vars

(* SpecViewConc: every thread calls update_view of one file once, on a cache
   whose views were loaded, have expired or were invalidated. *)
ViewedId == "a"

InitViewConc ==
    /\ InitCache
    /\ disk = Ids
    /\ store_ratings = EmptyMap
    /\ store_tags = EmptyMap
    /\ _favorites = <<>>
    /\ max_requests = api_max_requests
    /\ window_seconds = api_window_seconds

NextViewConc ==
    \/ \E t \in Threads : view_call(t, ViewedId)
    \/ \E t \in Threads : view_enter(t)
    \/ \E t \in Threads : view_count(t)
    \/ \E t \in Threads : view_return(t)
    \/ _lock = "none" /\ get_views
    \/ _lock = "none" /\ invalidate_views
    \/ \E d \in CacheSteps : Tick(d, CacheHorizon * Res)

SpecViewConc == InitViewConc /\ [][NextViewConc]_vars

(* SpecFlat: the views and the favorites of a VideoCache on the flat-file
   backend. *)
InitFlat ==
    /\ InitCache
    /\ ~use_database
    /\ disk = Ids
    /\ store_ratings = EmptyMap
    /\ store_views = EmptyMap
    /\ store_tags = EmptyMap
    /\ _favorites = <<>>
    /\ max_requests = api_max_requests
    /\ window_seconds = api_window_seconds

FlatLists == {<<"a">>, <<"b", "a">>}

NextFlat ==
    \/ get_views
    \/ \E f \in Ids, fail \in BOOLEAN : update_view(f, fail)
    \/ invalidate_views
    \/ get_favorites
    \/ \E favorites \in FlatLists, done \in 0..1 :
          update_favorites(favorites, done)
    \/ invalidate_favorites
    \/ \E d \in CacheSteps : Tick(d, CacheHorizon * Res)

SpecFlat == InitFlat /\ [][NextFlat]_vars

(* SpecToggle: POST /favorite requests on either backend while the cache
   expires or is invalidated. *)
NextToggle ==
    \/ \E f \in Ids, done \in 0..MaxBackendCalls : toggle_favorite(f, done)
    \/ get_favorites
    \/ invalidate_favorites
    \/ \E d \in CacheSteps : Tick(d, CacheHorizon * Res)

SpecToggle == InitFavoritesSpec /\ [][NextToggle]_vars

(* SpecTagRoutes: POST /tag and POST /delete_tag requests on either backend
   while the tags expire or are invalidated. *)
MaxRouteCalls == 5

InitTagRoutes ==
    /\ InitCache
    /\ disk = Ids
    /\ store_ratings = EmptyMap
    /\ store_views = EmptyMap
    /\ _favorites = <<>>
    /\ max_requests = api_max_requests
    /\ window_seconds = api_window_seconds

NextTagRoutes ==
    \/ \E f \in TagIds, data \in TagInputs, done \in 0..MaxRouteCalls :
          add_tag(f, data, done)
    \/ \E f \in TagIds, data \in TagInputs \cup {"#x"}, done \in 0..MaxRouteCalls :
          delete_tag(f, data, done)
    \/ invalidate_tags
    \/ \E d \in CacheSteps : Tick(d, CacheHorizon * Res)

SpecTagRoutes == InitTagRoutes /\ [][NextTagRoutes]_vars

(* SpecVideoList: the video list is read while files come and go, rows are
   added to the videos table by the writes, and the entry expires. *)
VideoListSteps == {video_list_ttl * Res - 1, video_list_ttl * Res}
VideoListTtls == 2

InitVideoList ==
    /\ InitCache
    /\ store_ratings = EmptyMap
    /\ store_views = EmptyMap
    /\ store_tags = EmptyMap
    /\ _favorites = <<>>
    /\ max_requests = api_max_requests
    /\ window_seconds = api_window_seconds

NextVideoList ==
    \/ \E read_ok \in BOOLEAN, inserted \in SUBSET Ids, delete_ok \in BOOLEAN,
          names_ok \in BOOLEAN :
          get_video_list_with(read_ok, inserted, delete_ok, names_ok)
    \/ invalidate_video_list
    \/ \E f \in Ids : insert_video_row(f)
    \/ \E f \in Ids : file_added(f)
    \/ \E f \in Ids : file_removed(f)
    \/ \E d \in VideoListSteps : Tick(d, VideoListTtls * video_list_ttl * Res)

SpecVideoList == InitVideoList /\ [][NextVideoList]_vars

(* SpecCatalogue: the catalogue is listed, as index lists it and as the other
   routes do, while ratings and views are written and the entries expire. *)
SortInputs == {"title", "rating", "size"}

InitCatalogue ==
    /\ InitCache
    /\ disk = Ids
    /\ store_views = EmptyMap
    /\ store_tags = EmptyMap
    /\ _favorites = <<>>
    /\ max_requests = api_max_requests
    /\ window_seconds = api_window_seconds

NextCatalogue ==
    \/ \E sort_by \in SortInputs, reverse \in BOOLEAN,
          kwargs \in {{}, {"limit", "offset"}} :
          get_all_video_data(sort_by, reverse, kwargs)
    \/ \E f \in Ids : update_rating(f, 5, FALSE)
    \/ invalidate_ratings
    \/ \E d \in CacheSteps : Tick(d, CacheHorizon * Res)

SpecCatalogue == InitCatalogue /\ [][NextCatalogue]_vars

(* SpecRelated: the videos related to one video are asked for on the
   flat-file backend while ratings are written. *)
Target == "t"
RelatedViews == 10

RelatedTags ==
    [f \in Ids \cup {Target} |-> IF f = "a" THEN <<"#x">> ELSE <<"#x", "#y">>]

InitRelated ==
    /\ use_database = FALSE
    /\ disk = Ids
    /\ db = "None"
    /\ now = StartTime
    /\ store_ratings \in {EmptyMap, [f \in {"a"} |-> 5]}
    /\ store_views \in {EmptyMap, [f \in {"a"} |-> RelatedViews]}
    /\ store_tags = RelatedTags
    /\ store_favorites = <<>>
    /\ _favorites = <<>>
    /\ _ratings = store_ratings
    /\ _views = store_views
    /\ _tags = AllocRefs(DOMAIN store_tags, Refs)
    /\ heap = [r \in Refs |->
                  IF \E f \in DOMAIN _tags : _tags[f] = r
                  THEN store_tags[CHOOSE f \in DOMAIN _tags : _tags[f] = r]
                  ELSE <<>>]
    /\ _popular_tags \in PopularRankings(store_tags)
    /\ held = NoHeld
    /\ _last_refresh = [c \in Categories |-> StartTime]
    /\ store_videos = {}
    /\ ensured = <<>>
    /\ _video_list \in LoadVideoList
    /\ _video_metadata = EmptyMap
    /\ requests = EmptyMap
    /\ burst = [ip \in Keys |-> NoBurst]
    /\ admitted = [ip \in Keys |-> <<>>]
    /\ _lock = "none"
    /\ readers = [t \in Threads |-> Idle]
    /\ lock = "none"
    /\ workers = [t \in Threads |-> Idle]
    /\ executing = NotExecuting
    /\ _metrics = "None"
    /\ _rate_limiter = "None"
    /\ getting = [t \in Threads |-> NotGetting]
    /\ route_samples = EmptyMap
    /\ global_samples = <<>>
    /\ ratings_post_latencies = <<>>
    /\ appended = <<>>
    /\ recorders = [t \in Threads |-> Idle]
    /\ _SNAPSHOT_CACHE = EmptyMap
    /\ perf_monitor = "None"
    /\ cache_hits = 0
    /\ cache_misses = 0
    /\ cache_stats = [hits |-> 0, misses |-> 0, total_requests |-> 0]
    /\ ret = Ret("init", "", 0, "ok", 0)
    /\ max_requests = api_max_requests
    /\ window_seconds = api_window_seconds

NextRelated ==
    \/ \E f \in Ids \cup {Target}, limit \in 1..2 : get_related_videos_optimized(f, limit)
    \/ \E f \in Ids : update_rating(f, 1, FALSE)
    \/ invalidate_ratings
    \/ \E d \in CacheSteps : Tick(d, CacheHorizon * Res)

SpecRelated == InitRelated /\ [][NextRelated]_vars

(* SpecInvalidate: the tags, their ranking and the invalidations of the
   Cache wrapper. *)
InitInvalidate ==
    /\ InitCache
    /\ disk = Ids
    /\ store_ratings # EmptyMap
    /\ store_views # EmptyMap
    /\ _favorites # <<>>
    /\ max_requests = api_max_requests
    /\ window_seconds = api_window_seconds

NextInvalidate ==
    \/ \E key \in Categories : Cache_invalidate(key)
    \/ Cache_invalidate_all
    \/ invalidate_popular_tags
    \/ get_popular_tags
    \/ \E f \in TagIds, tag \in Tags : write_tag(f, tag)
    \/ \E f \in TagIds, tags \in NewTagLists : update_tags_new(f, tags, MaxBackendCalls)
    \/ refresh_all
    \/ \E d \in CacheSteps : Tick(d, CacheHorizon * Res)

SpecInvalidate == InitInvalidate /\ [][NextInvalidate]_vars

(* SpecBackends: short sequences of calls given to both backends. *)
BackendCalls ==
    {<<"get_ratings", "", 0>>, <<"get_views", "", 0>>,
     <<"update_rating", "a", 3>>, <<"update_rating", "b", 5>>,
     <<"update_view", "a", 0>>, <<"update_view", "b", 0>>,
     <<"invalidate_ratings", "", 0>>, <<"invalidate_views", "", 0>>}
MaxCalls == 3
CallLists == UNION {[1..n -> BackendCalls] : n \in 0..MaxCalls}

InitBackends ==
    /\ InitCache
    /\ disk = Ids
    /\ store_tags = EmptyMap
    /\ _favorites = <<>>
    /\ max_requests = api_max_requests
    /\ window_seconds = api_window_seconds

(* one comparison in a behaviour *)
NextBackends == \E calls \in CallLists : ret.op = "init" /\ call_both(calls)

SpecBackends == InitBackends /\ [][NextBackends]_vars

(* SpecConstruct: a VideoCache is constructed over some stored data and then
   used. *)
InitConstruct ==
    /\ use_database = FALSE
    /\ db = "unset"
    /\ disk \in {Ids, {"a"}}
    /\ now = StartTime
    /\ store_ratings \in InitRatingMaps
    /\ store_views \in InitViewMaps
    /\ store_tags \in InitTagMaps
    /\ store_favorites = <<>>
    /\ store_videos = {}
    /\ ensured = <<>>
    /\ _ratings = EmptyMap
    /\ _views = EmptyMap
    /\ _tags = EmptyMap
    /\ _popular_tags = <<>>
    /\ _favorites = <<>>
    /\ _video_list = <<>>
    /\ _video_metadata = EmptyMap
    /\ heap = [r \in Refs |-> <<>>]
    /\ held = NoHeld
    /\ _last_refresh = [c \in Categories |-> 0]
    /\ requests = EmptyMap
    /\ burst = [ip \in Keys |-> NoBurst]
    /\ admitted = [ip \in Keys |-> <<>>]
    /\ max_requests = api_max_requests
    /\ window_seconds = api_window_seconds
    /\ _lock = "none"
    /\ readers = [t \in Threads |-> Idle]
    /\ lock = "none"
    /\ workers = [t \in Threads |-> Idle]
    /\ executing = NotExecuting
    /\ _metrics = "None"
    /\ _rate_limiter = "None"
    /\ getting = [t \in Threads |-> NotGetting]
    /\ route_samples = EmptyMap
    /\ global_samples = <<>>
    /\ ratings_post_latencies = <<>>
    /\ appended = <<>>
    /\ recorders = [t \in Threads |-> Idle]
    /\ _SNAPSHOT_CACHE = EmptyMap
    /\ perf_monitor = "None"
    /\ cache_hits = 0
    /\ cache_misses = 0
    /\ cache_stats = [hits |-> 0, misses |-> 0, total_requests |-> 0]
    /\ ret = Ret("init", "", 0, "ok", 0)

NextConstruct ==
    \/ \E requested \in BOOLEAN, available \in BOOLEAN, failure \in InitFailures :
          init_backend(requested, available, failure)
    \/ init_refresh
    \/ init_skip_refresh
    \/ Constructed /\ get_ratings
    \/ Constructed /\ \E f \in Ids, r \in {3} : update_rating(f, r, FALSE)
    \/ Constructed /\ invalidate_ratings
    \/ Constructed /\ refresh_all
    \/ Constructed /\ \E d \in CacheSteps : Tick(d, CacheHorizon * Res)

SpecConstruct == InitConstruct /\ [][NextConstruct]_vars

(* SpecLatency: two threads record latency samples while time passes. *)
LatencyInputs == {<<RATINGS_POST, 30, 200>>, <<"GET /watch", -5, 500>>}
LatencySteps == {(MAX_WINDOW_SECONDS * Res) \div 2, MAX_WINDOW_SECONDS * Res}
LatencyWindows == 2
LatencyHorizon == LatencyWindows * MAX_WINDOW_SECONDS * Res

InitMetrics ==
    /\ InitLimiter
    /\ store_ratings = EmptyMap
    /\ max_requests = api_max_requests
    /\ window_seconds = api_window_seconds

NextLatency ==
    \/ \E t \in Threads, in \in LatencyInputs : record_stamp(t, in[1], in[2], in[3])
    \/ \E t \in Threads : record_store(t)
    \/ \E d \in LatencySteps : Tick(d, LatencyHorizon)

SpecLatency == InitMetrics /\ [][NextLatency]_vars

(* SpecAge: two threads record while the clock moves by single ticks at
   first; it moves by the age ceiling only while no call is under way, so
   that no call takes longer than AgeSlack ticks. *)
AgeSlack == 2

NextAge ==
    \/ \E t \in Threads, in \in LatencyInputs : record_stamp(t, in[1], in[2], in[3])
    \/ \E t \in Threads : record_store(t)
    \/ Tick(1, AgeSlack)
    \/ Stamped = {} /\ Tick(MAX_WINDOW_SECONDS * Res, LatencyHorizon)

SpecAge == InitMetrics /\ [][NextAge]_vars

(* SpecPercentiles: the percentiles of every short list of latencies. *)
PercentileValues == {10, 20, 30, 40, 100}
MaxValues == 5
LatencyLists == UNION {[1..n -> PercentileValues] : n \in 0..MaxValues}

(* one call in a behaviour *)
NextPercentiles ==
    \E values \in LatencyLists : ret.op = "init" /\ latency_percentiles(values)

SpecPercentiles == InitMetrics /\ [][NextPercentiles]_vars

(* SpecSnapshot: the admin snapshot is asked for while one thread records
   samples and time passes in steps short of the memo's life. *)
SnapshotKeys == {<<300, FALSE, TRUE>>, <<900, TRUE, FALSE>>, <<60, FALSE, TRUE>>}
SnapshotSteps == {1, SNAPSHOT_TTL_SECONDS * Res - 1}
SnapshotSlack == 1
SnapshotHorizon == SNAPSHOT_TTL_SECONDS * Res + SnapshotSlack
SnapshotInputs == {<<RATINGS_POST, 30, 500>>}
SnapshotSamples == 2

NextSnapshot ==
    \/ \E k \in SnapshotKeys : get_performance_snapshot(k[1], k[2], k[3])
    \/ \E in \in SnapshotInputs :
          Len(appended) < SnapshotSamples /\ record_stamp("t1", in[1], in[2], in[3])
    \/ record_store("t1")
    \/ \E d \in SnapshotSteps : Tick(d, SnapshotHorizon)

SpecSnapshot == InitMetrics /\ [][NextSnapshot]_vars

(* SpecRetry: calls of execute_with_retry one after the other, each attempt
   ending in rows, in 'database is locked' or in another error; the thread
   that is in the call keeps running. *)
StepRetry ==
    \/ \E outcome \in AttemptOutcomes : execute_attempt(outcome)
    \/ execute_sleep
    \/ execute_exhausted

NextRetry ==
    \/ \E max_retries \in 0..MaxRetries : execute_with_retry(max_retries)
    \/ StepRetry

SpecRetry == InitMetrics /\ [][NextRetry]_vars /\ WF_vars(StepRetry)

(* SpecReconcile: the video list is read and the catalogue is listed, with
   no invalidation, while files come and go and time passes in steps of
   about one life of the video-list entry. *)
NextReconcile ==
    \/ get_video_list
    \/ \E sort_by \in SortInputs, reverse \in BOOLEAN :
          get_all_video_data(sort_by, reverse, {})
    \/ \E f \in Ids : file_added(f)
    \/ \E f \in Ids : file_removed(f)
    \/ \E d \in VideoListSteps : Tick(d, VideoListTtls * video_list_ttl * Res)

SpecReconcile == InitVideoList /\ [][NextReconcile]_vars

(* SpecRefresh: every category is read, through its getter and through
   get(key, force_refresh), invalidated and refreshed, before and after the
   entries expire; at most MaxStale categories are left invalidated at a
   time. *)
GetKeys ==
    {VIDEO_LIST, <<"ratings">>, <<"views">>, <<"tags">>, <<"favorites">>,
     <<"tags", "a">>, <<"views", "a">>, <<"rating", "a">>, <<"popular", "tags">>}
MaxStale == 2

(* one more category may be invalidated *)
MayInvalidate == Cardinality({c \in Categories : _last_refresh[c] = 0}) < MaxStale

InitRefresh ==
    /\ InitCache
    /\ disk = Ids
    /\ store_ratings # EmptyMap
    /\ store_views # EmptyMap
    /\ store_tags # EmptyMap
    /\ _favorites # <<>>
    /\ max_requests = api_max_requests
    /\ window_seconds = api_window_seconds

NextRefresh ==
    \/ get_ratings
    \/ get_views
    \/ get_tags
    \/ get_favorites
    \/ get_video_list
    \/ get_popular_tags
    \/ MayInvalidate /\ invalidate_ratings
    \/ MayInvalidate /\ invalidate_views
    \/ MayInvalidate /\ invalidate_tags
    \/ MayInvalidate /\ invalidate_favorites
    \/ MayInvalidate /\ invalidate_video_list
    \/ MayInvalidate /\ invalidate_popular_tags
    \/ refresh_all
    \/ \E key \in GetKeys : get(key, TRUE)
    \/ Tick(cache_ttl * Res, cache_ttl * Res)

SpecRefresh == InitRefresh /\ [][NextRefresh]_vars

(* SpecFavConc: each thread handles one POST /favorite; the favorites may
   expire in between. *)
NextFavConc ==
    \/ \E t \in Threads, filename \in Ids : fav_call(t, filename)
    \/ \E t \in Threads : fav_read(t)
    \/ \E t \in Threads : fav_write(t)
    \/ \E d \in CacheSteps : Tick(d, CacheHorizon * Res)

SpecFavConc == InitViewConc /\ [][NextFavConc]_vars

(* SpecListed: on the flat-file backend the catalogue is listed and the
   related videos are ranked between writes of ratings and views, all of
   which succeed; nothing is invalidated. *)
ListedSorts == {"rating", "views"}
ListedRating == 4

NextListed ==
    \/ \E sort_by \in ListedSorts : get_all_video_data(sort_by, TRUE, {})
    \/ get_related_videos_optimized(Target, Cardinality(Ids))
    \/ \E f \in Ids : update_rating(f, ListedRating, FALSE)
    \/ \E f \in Ids : update_view(f, FALSE)

SpecListed == InitRelated /\ [][NextListed]_vars

(* SpecGet: the legacy cache.get(key, force_refresh) is called with every
   key it supports, forcing a refresh or not, before and after the entries
   expire. *)
NextGet ==
    \/ \E key \in GetKeys, force_refresh \in BOOLEAN : get(key, force_refresh)
    \/ \E force_refresh \in BOOLEAN : get_all_videos(force_refresh)
    \/ Tick(cache_ttl * Res, cache_ttl * Res)

SpecGet == InitRefresh /\ [][NextGet]_vars

(* SpecRetryAfter: one RateLimiter of two requests per two seconds, called
   for either key while the clock moves by single ticks, so that calls fall
   between whole seconds. *)
RetryAfterWindows == 1

InitRetryAfter ==
    /\ InitLimiter
    /\ store_ratings = EmptyMap
    /\ max_requests = 2
    /\ window_seconds = 2

NextRetryAfter ==
    \/ \E ip \in Keys : burst[ip].k < MaxBurst /\ is_allowed(ip)
    \/ Tick(1, RetryAfterWindows * window_seconds * Res)

SpecRetryAfter == InitRetryAfter /\ [][NextRetryAfter]_vars

----------------------------------------------------------------------------
(* What the next read of a category returns, as the code stands: the
   cached value when the entry is valid, what the backend holds otherwise. *)

NextReadRatings == IF _is_cache_valid("ratings") THEN _ratings ELSE LoadRatings
NextReadViews == IF _is_cache_valid("views") THEN _views ELSE LoadViews
NextReadTags == IF _is_cache_valid("tags") THEN TagsValue(_tags, heap) ELSE LoadTags
NextReadFavorites == IF _is_cache_valid("favorites") THEN {_favorites} ELSE LoadFavorites

(* C1: in every reachable state, also after a backend write that raised, the
   next read of each write-through category (ratings, views, tags, favorites)
   returns exactly what the backend holds. *)
C1_NextReadIsBackendTruth ==
    /\ NextReadRatings = LoadRatings
    /\ NextReadViews = LoadViews
    /\ NextReadTags = LoadTags
    /\ NextReadFavorites \subseteq LoadFavorites

(* C2: RatingsService.set_rating (and POST /api/ratings) returns a summary
   only when the rating is durably stored in the backend and the ratings cache
   was invalidated and reloaded from it. *)
C2_SuccessMeansStored ==
    (ret.op \in {"set_rating", "post_rating"} /\ ret.outcome = "ok")
        => /\ Get(store_ratings, ret.id, 0) = ret.value
           /\ _ratings = store_ratings

(* C3: the persisted view count of a media id never decreases, and
   update_view(id) returns the previously persisted count of id plus one. *)
C3_ViewsMonotone ==
    [][/\ \A f \in Ids : Get(store_views', f, 0) >= Get(store_views, f, 0)
       /\ (ret'.op = "update_view" /\ ret'.outcome = "ok")
             => ret'.result = Get(store_views, ret'.id, 0) + 1]_vars

(* C4: after set_rating(id, v) succeeded for v in 1..5, the summary it
   returns (get_rating_summary(id)) has average v, count 1 and user.value v;
   get_rating_summary of an id without a rating reports average 0, count 0
   and no user. *)
C4_SummaryAfterWrite ==
    /\ (ret.op \in {"set_rating", "post_rating"} /\ ret.outcome = "ok")
          => ret.result.summary =
                [average |-> ret.value, count |-> 1, user |-> User(ret.value)]
    /\ (ret.op = "get_rating_summary" /\ ret.id \notin DOMAIN _ratings)
          => ret.result = [average |-> 0, count |-> 0, user |-> NoUser]

(* C5: a rating write with a value outside 1..5 fails with a validation error
   and leaves the backend rating, the cached ratings and their last_refresh
   as they were; for RatingsService.set_rating and VideoCache.update_rating. *)
C5_InvalidRatingRejected ==
    [][(ret'.op \in {"update_rating", "set_rating"}
          /\ (ret'.value < 1 \/ ret'.value > 5))
        => /\ ret'.outcome \in {"ValueError", "IntegrityError"}
           /\ UNCHANGED <<store_ratings, _ratings, _last_refresh>>]_vars

(* C6: however many threads read a stale entry concurrently (stale: now -
   last_refresh >= TTL, the TTL of video_list being min(60, cache_ttl)), a
   reload is performed only on an entry that is stale when it is reloaded, so
   the first reload is the only one until the TTL passes again; a read skips
   the reload only when the entry is within its TTL. *)
C6_ReloadOnlyWhenStale ==
    [][\A t \in Threads :
          /\ (readers[t].pc = "reload" /\ readers'[t].pc = "copy")
                => ~_is_cache_valid(readers[t].cache_key)
          /\ (readers[t].pc = "check" /\ readers'[t].pc = "copy")
                => _is_cache_valid(readers[t].cache_key)]_vars

C6_Witness ==
    \E t, u \in Threads :
        /\ t # u
        /\ readers[t].pc = "copy"
        /\ _last_refresh[readers[t].cache_key] = now
        /\ now > StartTime
        /\ readers[u].pc = "wait"
        /\ readers[u].cache_key = readers[t].cache_key
        /\ readers[t].cache_key = "video_list"

(* C7: a caller changing a value a read returned, the nested per-id tag list
   of get_tags included, never changes what the cache holds. *)
C7_ReturnedValuesAreCopies ==
    [][ret'.op = "client_mutate"
        => /\ TagsValue(_tags', heap') = TagsValue(_tags, heap)
           /\ _ratings' = _ratings
           /\ _views' = _views
           /\ _favorites' = _favorites]_vars

(* C8: the k-th is_allowed call of one key within one window is allowed with
   remaining = max_requests - k for k <= max_requests; the calls after the
   max_requests-th are denied with remaining 0 and reset_in >= 1 (with
   max_requests 5 and a window of 10 s: 4, 3, 2, 1, 0, then denied). *)
C8_RemainingCountsDown ==
    (ret.op = "is_allowed" /\ burst[ret.id].k > 0)
        => LET k == burst[ret.id].k
           IN  /\ k <= max_requests
                     => /\ ret.result.allowed
                        /\ ret.result.remaining = max_requests - k
               /\ k > max_requests
                     => /\ ~ret.result.allowed
                        /\ ret.result.remaining = 0
                        /\ ret.result.reset_in >= 1

C8_Witness ==
    /\ ret.op = "is_allowed"
    /\ max_requests = 5
    /\ window_seconds = 10
    /\ burst[ret.id].k = 6
    /\ ~ret.result.allowed
    /\ ret.result.remaining = 0

(* C9: under every interleaving of concurrent is_allowed and get_stats calls,
   the list of a key never holds more than max_requests entries, the
   timestamps admitted for a key within any one window number at most
   max_requests, and at most one call is between its clean-up and its
   record. *)
C9_WindowNeverExceeded ==
    /\ \A ip \in DOMAIN requests : Len(requests[ip]) <= max_requests
    /\ \A ip \in Keys : \A i \in DOMAIN admitted[ip] :
          Cardinality({j \in DOMAIN admitted[ip] :
                          /\ admitted[ip][j] > admitted[ip][i] - window_seconds * Res
                          /\ admitted[ip][j] <= admitted[ip][i]}) <= max_requests
    /\ Cardinality({t \in Threads : workers[t].pc \in {"purge", "count", "record"}}) <= 1

C9_Witness ==
    \E t, u \in Threads :
        /\ t # u
        /\ workers[t].pc = "record"
        /\ workers[t].current_count = max_requests - 1
        /\ workers[u].pc = "wait"
        /\ workers[u].op = "is_allowed"
        /\ workers[u].ip = workers[t].ip

(* C10: a POST /api/ratings that the limiter denies answers 429 with
   Retry-After equal to the reset_in of the limiter, at least 1, and writes
   nothing: the ratings table, the cached ratings and their last_refresh stay
   as they were; a request beyond the max_requests of its window is denied. *)
C10_DeniedBeforeWritePath ==
    [][ret'.op = "post_rating"
        => LET ip == ret'.result.client_ip
               lst == Purge(Get(requests, ip, <<>>), now)
           IN  /\ Len(lst) >= max_requests => ret'.outcome = "RateLimited"
               /\ ret'.outcome = "RateLimited"
                     => /\ ret'.result.status = 429
                        /\ ret'.result.retry_after = ResetIn(lst, now)
                        /\ ret'.result.retry_after >= 1
                        /\ UNCHANGED <<store_ratings, _ratings, _last_refresh>>]_vars

C10_Witness ==
    /\ ret.op = "post_rating"
    /\ ret.outcome = "RateLimited"
    /\ ret.result.status = 429
    /\ ret.result.retry_after = 1
    /\ ret.value = 3

(* the number of requests test_rate_limiting_enforced expects to be admitted
   (for i in range(10)) before the one that is turned away *)
TestAdmitted == 10

(* C11: for POST /api/ratings from one client, the first 10 requests made
   within one rate-limit window are all admitted (no 429), and the 11th
   request of that window is answered 429. *)
C11_TenAdmittedThenDenied ==
    [][ret'.op = "post_rating"
        => LET k == burst'[ret'.result.client_ip].k
           IN  /\ (k >= 1 /\ k <= TestAdmitted) => ret'.result.status # 429
               /\ k = TestAdmitted + 1 => ret'.result.status = 429]_vars

----------------------------------------------------------------------------
(* the samples stored so far under a route key, in the order they were stored *)
StoredOn(route_key) ==
    LET OnRoute(e) == e.sample.route_key = route_key
    IN  SelectSeq(appended, OnRoute)

LastN(h, k) == SubSeq(h, Len(h) - Min(k, Len(h)) + 1, Len(h))

(* dq holds the latest samples of the history h, at most the ceiling of them,
   and all of the latest MAX_SAMPLES_PER_ROUTE when none of those was past
   the age ceiling at the last store *)
HoldsLatest(dq, h) ==
    LET latest == LastN(h, MAX_SAMPLES_PER_ROUTE)
    IN  /\ Len(dq) <= MAX_SAMPLES_PER_ROUTE
        /\ Len(dq) <= Len(h)
        /\ \A i \in 1..Len(dq) : dq[i] = h[Len(h) - Len(dq) + i].sample
        /\ (\A i \in 1..Len(latest) :
               latest[i].sample.timestamp
                  >= h[Len(h)].at - MAX_WINDOW_SECONDS * Res)
              => Len(dq) = Len(latest)

(* C12: after any sequence of record_endpoint_latency calls every per-route
   deque and the global deque hold at most MAX_SAMPLES_PER_ROUTE samples, and
   what each holds is the most recent samples stored in it, in the order they
   were stored, the oldest dropped first; a deque given more samples than the
   ceiling in one age window holds exactly the last MAX_SAMPLES_PER_ROUTE. *)
C12_DequesHoldLatest ==
    /\ HoldsLatest(global_samples, appended)
    /\ \A r \in Routes : HoldsLatest(Get(route_samples, r, <<>>), StoredOn(r))
    /\ DOMAIN route_samples \subseteq Routes

C12_Witness ==
    /\ ret.op = "record_endpoint_latency"
    /\ Len(appended) = MaxSamples
    /\ Len(StoredOn("GET /watch")) > MAX_SAMPLES_PER_ROUTE
    /\ Len(Get(route_samples, "GET /watch", <<>>)) = MAX_SAMPLES_PER_ROUTE
    /\ Len(global_samples) = MAX_SAMPLES_PER_ROUTE
    /\ global_samples[1].timestamp < global_samples[2].timestamp

(* the k-th smallest of the values, found by counting *)
OrderStatistic(values, k) ==
    CHOOSE x \in Range(values) :
        /\ Cardinality({i \in DOMAIN values : values[i] < x}) < k
        /\ k <= Cardinality({i \in DOMAIN values : values[i] <= x})

(* the i-th percentile by linear interpolation between the order statistics
   around the position i * (N + 1) / 100, in hundredths *)
CutPoint(values, i) ==
    LET N == Len(values)
        lo == Max(1, Min(N - 1, (i * (N + 1)) \div 100))
        x == OrderStatistic(values, lo)
        y == OrderStatistic(values, lo + 1)
    IN  100 * x + (i * (N + 1) - 100 * lo) * (y - x)

Reverse(s) == [i \in 1..Len(s) |-> s[Len(s) + 1 - i]]

(* C13: _get_latency_percentiles returns (0, 0, 0) for no samples and
   (v, v, v) for one sample v; for two or more it returns the 50th, 95th and
   99th cut points of one linear interpolation over the sorted samples, which
   depend on the multiset of the samples only; p50 of 10, 20, 30, 40, 100 is
   30. *)
C13_Percentiles ==
    ret.op = "_get_latency_percentiles"
    => LET values == ret.value
           p == ret.result
       IN  /\ values = <<>> => p = <<0, 0, 0>>
           /\ Len(values) = 1
                 => p = <<100 * values[1], 100 * values[1], 100 * values[1]>>
           /\ Len(values) >= 2
                 => p = <<CutPoint(values, 50), CutPoint(values, 95),
                          CutPoint(values, 99)>>
           /\ _get_latency_percentiles(Reverse(values)) = p
           /\ values = <<10, 20, 30, 40, 100>> => p[1] = 100 * 30

C13_Witness ==
    /\ ret.op = "_get_latency_percentiles"
    /\ ret.value = <<100, 40, 10, 30, 20>>
    /\ ret.result[1] = 3000
    /\ ret.result[3] > 100 * 100

(* C14: a get_performance_snapshot call made less than SNAPSHOT_TTL_SECONDS
   after the call that memoized a snapshot under the same (window_seconds,
   include_routes, include_workers) returns that snapshot, whatever samples
   were recorded in between; a call made SNAPSHOT_TTL_SECONDS or more after
   the memoized one, or the first one, computes the snapshot anew and
   memoizes it; a call never returns or replaces the snapshot of another
   key. *)
C14_SnapshotMemoized ==
    [][(ret'.op = "get_performance_snapshot" /\ ret'.outcome = "ok")
        => LET k == ret'.value
               old == _SNAPSHOT_CACHE
           IN  /\ (k \in DOMAIN old /\ now - old[k].at < SNAPSHOT_TTL_SECONDS * Res)
                     => /\ ret'.result = old[k].snapshot
                        /\ ret'.result.generated_at = old[k].at
                        /\ UNCHANGED _SNAPSHOT_CACHE
               /\ (k \notin DOMAIN old \/ now - old[k].at >= SNAPSHOT_TTL_SECONDS * Res)
                     => /\ ret'.result.generated_at = now
                        /\ ret'.result.global.request_count = Len(global_samples)
                        /\ _SNAPSHOT_CACHE'[k] = [at |-> now, snapshot |-> ret'.result]
               /\ ret'.result.window_seconds = k[1]
               /\ (ret'.result.routes # None) = k[2]
               /\ (ret'.result.workers.generated_at # None) = k[3]
               /\ \A o \in DOMAIN old \ {k} :
                      /\ o \in DOMAIN _SNAPSHOT_CACHE'
                      /\ _SNAPSHOT_CACHE'[o] = old[o]]_vars

(* a memoized snapshot is returned although a sample was stored since *)
C14_Witness ==
    /\ ret.op = "get_performance_snapshot"
    /\ ret.outcome = "ok"
    /\ ret.result.generated_at < now
    /\ ret.result.global.request_count < Len(global_samples)
    /\ Cardinality(DOMAIN _SNAPSHOT_CACHE) >= 2

(* C15: when the relational backend fails to initialise while a VideoCache
   is constructed, whatever the failure, construction goes on with the
   flat-file backend (use_database false, db None); once constructed, the
   backend of a VideoCache never changes. *)
C15_AnyFailureFallsBack ==
    [][/\ (ret'.op = "init_backend" /\ ret'.value # "none")
            => (ret'.outcome = "ok" /\ ~use_database' /\ db' = "None")
       /\ db # "unset" => UNCHANGED <<use_database, db>>]_vars

(* C16: for every sequence of update_rating, update_view, invalidate_ratings,
   invalidate_views, get_ratings and get_views calls, a flat-file VideoCache
   returns from every call what a relational VideoCache started from the same
   data returns. *)
C16_BackendsAgree ==
    ret.op = "call_both" => ret.result.flat = ret.result.relational

(* C17: a POST /api/ratings whose durable write meets 'database is locked'
   until the write path gives up does not answer success: the caller gets a
   5xx status when the rating was not committed. *)
C17_LockedWriteIsFatal ==
    [][(/\ ret'.op = "post_rating"
        /\ ret'.result.status # 429
        /\ RatingInputValid(ret'.value)
        /\ ret'.id \in disk
        /\ ~ret'.result.committed)
        => ret'.result.status >= 500]_vars

(* the in-memory value of a category is empty *)
NoValue(c) ==
    CASE c = "ratings" -> _ratings = EmptyMap
      [] c = "views" -> _views = EmptyMap
      [] c = "tags" -> _tags = EmptyMap
      [] c = "favorites" -> _favorites = <<>>
      [] c = "video_list" -> _video_list = <<>>
      [] c = "popular_tags" -> _popular_tags = <<>>

(* C18: right after invalidate_all() every category (ratings, views, tags,
   favorites, video_list, popular_tags) has last_refresh = 0 and no in-memory
   value; right after invalidate(name) the category name has. *)
C18_InvalidateDropsValue ==
    /\ ret.op = "Cache.invalidate_all"
          => \A c \in Categories : _last_refresh[c] = 0 /\ NoValue(c)
    /\ ret.op = "Cache.invalidate"
          => _last_refresh[ret.id] = 0 /\ NoValue(ret.id)

(* C19: after a tag mutation (VideoCache.update_tags, WriteThrough.write_tag,
   or an invalidation of 'tags') the popular-tags entry is invalidated too:
   its last_refresh is 0 and its ranking dropped, so that the next
   get_popular_tags computes the ranking anew. *)
C19_TagMutationDropsRanking ==
    ((ret.op \in {"update_tags", "write_tag"} /\ ret.outcome = "ok")
        \/ (ret.op = "Cache.invalidate" /\ ret.id = "tags"))
    => (_last_refresh["popular_tags"] = 0 /\ _popular_tags = <<>>)

(* C20: on the flat-file backend, a get_views() made right after
   update_view(id) returned n has n for id, and a get_favorites() made right
   after update_favorites(L) returned gives exactly L. *)
C20_ReadYourWrites ==
    [][~use_database
        => /\ (ret.op = "update_view" /\ ret.outcome = "ok" /\ ret'.op = "get_views")
                 => /\ ret.id \in DOMAIN ret'.result
                    /\ ret'.result[ret.id] = ret.result
           /\ (ret.op = "update_favorites" /\ ret.outcome = "ok"
                  /\ ret'.op = "get_favorites")
                 => ret'.result = ret.value]_vars

(* update_view has returned 1 for a file counted anew after an invalidation:
   the read that follows reloads views.json *)
C20_Witness ==
    /\ ~use_database
    /\ ret.op = "update_view"
    /\ ret.outcome = "ok"
    /\ ret.result = 1
    /\ ~_is_cache_valid("views")
    /\ Get(store_views, ret.id, 0) = 1


(* membership of a media id in the favorites the backend holds *)
InBackend(f) ==
    IF use_database THEN f \in DOMAIN store_favorites ELSE Contains(store_favorites, f)

(* C21: one answered toggle of id flips the membership of id in the favorites
   of the cache (the list get_favorites gave the request, against the list the
   cache holds afterwards) and of the backend, and leaves the membership of
   every other id as it was (so that two consecutive toggles of id restore
   it). *)
C21_ToggleFlips ==
    [][(ret'.op = "toggle_favorite" /\ ret'.outcome = "ok")
        => \A f \in Ids :
              /\ Contains(_favorites', f)
                    = (IF f = ret'.id THEN ~Contains(ret'.value, f)
                       ELSE Contains(ret'.value, f))
              /\ InBackend(f)' = (IF f = ret'.id THEN ~InBackend(f) ELSE InBackend(f))]_vars


(* no two tags of the list are equal ignoring case *)
CaseUnique(tags) ==
    \A i, j \in 1..Len(tags) : i # j => Lower(tags[i]) # Lower(tags[j])

NoCaseDuplicates ==
    /\ \A f \in DOMAIN _tags : CaseUnique(heap[_tags[f]])
    /\ \A f \in DOMAIN store_tags : CaseUnique(store_tags[f])

(* C22: after every add_tag and delete_tag request no media id has two tags
   equal ignoring case, in the cache or in the backend, and an answered
   delete_tag(id, t) leaves for id, in the answer, in the cache and in the
   backend, the tags the request read for id less those equal to t ignoring
   case, in their order. *)
C22_TagsCaseUnique ==
    [][/\ NoCaseDuplicates'
       /\ (ret'.op = "delete_tag" /\ ret'.outcome = "ok")
            => LET before == IF ret'.id \in DOMAIN TagsRead.tagmap
                             THEN TagsRead.hp[TagsRead.tagmap[ret'.id]] ELSE <<>>
                   kept == SelectSeq(before, LAMBDA t : Lower(t) # Lower(ret'.value))
               IN  /\ ret'.result = kept
                   /\ heap'[_tags'[ret'.id]] = kept
                   /\ Get(store_tags', ret'.id, <<>>) = kept]_vars

(* a delete_tag of "#X" answered with the tags left of <<"#y", "#x">> *)
C22_Witness ==
    /\ ret.op = "delete_tag"
    /\ ret.outcome = "ok"
    /\ ret.value = "#X"
    /\ ret.result = <<"#y">>
    /\ heap[_tags[ret.id]] = <<"#y">>
    /\ Get(store_tags, ret.id, <<>>) = <<"#y">>


(* C23: the backend holds one rating per media id (store_ratings is keyed by
   the id) and every stored rating is in 1..5; a rating write that succeeded
   leaves for its id one rating, the value written. *)
C23_OneRatingInRange ==
    [][/\ \A f \in DOMAIN store_ratings' : store_ratings'[f] \in 1..5
       /\ ((ret'.op = "update_rating" /\ ret'.outcome = "ok")
             \/ (ret'.op = "set_rating" /\ ret'.outcome = "ok"
                   /\ ret'.result.committed))
            => /\ ret'.id \in DOMAIN store_ratings'
               /\ store_ratings'[ret'.id] = ret'.value]_vars


(* C24: a get_video_list on the relational backend that found its entry stale
   and whose database calls all returned leaves in the videos table exactly
   the video files of the directory, and returns exactly those, each once. *)
C24_RefreshReconciles ==
    [][(ret'.op = "get_video_list" /\ ret'.value = "miss" /\ ret'.outcome = "ok"
          /\ use_database)
        => /\ store_videos' = disk
           /\ Range(ret'.result) = disk
           /\ Len(ret'.result) = Cardinality(disk)]_vars

(* a refresh after the file a was deleted: the row of a, there since
   construction, was pruned and b alone is listed *)
C24_Witness ==
    /\ use_database
    /\ ret.op = "get_video_list"
    /\ ret.value = "miss"
    /\ ret.outcome = "ok"
    /\ disk = {"b"}
    /\ store_videos = {"b"}
    /\ ret.result = <<"b">>


(* C25: get_all_video_data(sort_key, order, limit, offset) returns the records
   of the files on disk, sorted by the key in the order asked for, and of
   those the at most limit records from position offset on; index asks for
   limit 1 from offset 1 here. *)
C25_SortedPage ==
    [][(ret'.op = "get_all_video_data" /\ ret'.value.kwargs = {"limit", "offset"})
        => /\ ret'.outcome = "ok"
           /\ \A i, j \in 1..Len(ret'.result) :
                 i < j => IF ret'.value.reverse
                          THEN SortKey(ret'.result[i], ret'.id)
                                  >= SortKey(ret'.result[j], ret'.id)
                          ELSE SortKey(ret'.result[i], ret'.id)
                                  <= SortKey(ret'.result[j], ret'.id)
           /\ Len(ret'.result)
                 = Min(1, Max(0, Cardinality(disk) - 1))]_vars


(* the candidates of a target by the stored tags, and the record the spec
   gives a candidate: its stored rating and views *)
RelatedCandidates(target) ==
    {f \in (DOMAIN store_tags \cap disk) \ {target} :
        Overlap(Get(store_tags, target, <<>>), store_tags[f]) > 0}

RelatedRecord(target, f) ==
    LET overlap == Overlap(Get(store_tags, target, <<>>), store_tags[f])
    IN  [filename |-> f, added_date |-> getctime[f],
         rating |-> Get(store_ratings, f, 0), views |-> Get(store_views, f, 0),
         tag_overlap |-> overlap,
         related_score |-> Score(overlap, Get(store_ratings, f, 0),
                                 Get(store_views, f, 0), getctime[f])]

(* C26: on the flat-file backend get_related_videos_optimized(target, N)
   returns min(N, number of candidates) records, each the record of a
   candidate (a file other than the target sharing a tag with it) with
   score = 3.0*overlap + 0.6*rating + min(views, 5000)/500
   + 0.1*added_date/1e9, in descending order of (score, overlap, rating,
   views), no candidate left out ranking above one returned. *)
C26_RelatedRanking ==
    [][(ret'.op = "get_related_videos_optimized")
        => LET target == ret'.id
               result == ret'.result
               returned == {result[i].filename : i \in 1..Len(result)}
           IN  /\ Len(result) = Min(ret'.value, Cardinality(RelatedCandidates(target)))
               /\ \A i \in 1..Len(result) :
                     /\ result[i].filename \in RelatedCandidates(target)
                     /\ result[i] = RelatedRecord(target, result[i].filename)
               /\ \A i, j \in 1..Len(result) :
                     i < j => ~RelatedGreater(result[j], result[i])
               /\ \A f \in RelatedCandidates(target) \ returned :
                     \A i \in 1..Len(result) :
                        ~RelatedGreater(RelatedRecord(target, f), result[i])]_vars

(* C27: every completed POST /api/ratings request, whatever its status (201,
   400, 404, 429 or 500), leaves exactly one more sample in the global deque
   and one more in the count of rating POSTs. *)
C27_OneSamplePerRequest ==
    [][(ret'.op = "app_post_rating")
        => /\ Len(global_samples') = Len(global_samples) + 1
           /\ Len(ratings_post_latencies') = Len(ratings_post_latencies) + 1]_vars

(* the category a read reads *)
ReadCategory(op) ==
    CASE op = "get_ratings" -> "ratings"
      [] op = "get_views" -> "views"
      [] op = "get_tags" -> "tags"
      [] op = "get_favorites" -> "favorites"
      [] op = "get_video_list" -> "video_list"

CategoryReads == {"get_ratings", "get_views", "get_tags", "get_favorites", "get_video_list"}

(* C28: the counters of hits and misses, those of the recorder and those of
   the monitor, never decrease; a category read adds one to exactly one of
   them, to the hits iff it did not reload; the hit rates reported are
   hits / (hits + misses) * 100, or 0 when both are zero. *)


C28_CountersMonotonic ==
    [][/\ cache_hits' >= cache_hits
       /\ cache_misses' >= cache_misses
       /\ cache_stats'.hits >= cache_stats.hits
       /\ cache_stats'.misses >= cache_stats.misses
       /\ (ret'.op \in CategoryReads)
             => LET cache_key == ReadCategory(ret'.op)
                    reloaded == _last_refresh'[cache_key] # _last_refresh[cache_key]
                    hit == IF reloaded THEN 0 ELSE 1
                IN  /\ cache_hits' = cache_hits + hit
                    /\ cache_misses' = cache_misses + (1 - hit)
                    /\ cache_stats'.hits = cache_stats.hits + hit
                    /\ cache_stats'.misses = cache_stats.misses + (1 - hit)
       /\ (ret'.op = "metrics_get_cache_hit_rate")
             => ret'.result = HitRate(cache_hits, cache_hits + cache_misses)
       /\ (ret'.op = "monitor_get_cache_hit_rate")
             => ret'.result = HitRate(cache_stats.hits,
                                     cache_stats.hits + cache_stats.misses)]_vars


(* the count persisted when the first of the calls was made *)
FirstPersisted ==
    CHOOSE n \in {readers[t].persisted : t \in Threads} :
        \A t \in Threads : n <= readers[t].persisted

(* C29: when every one of the N threads has returned from update_view(id),
   the persisted count of id is N more than it was when the first of them
   called, and the N counts returned are pairwise distinct. *)
C29_NoLostUpdate ==
    (\A t \in Threads : readers[t].pc = "viewed")
        => /\ Get(store_views, ViewedId, 0) = FirstPersisted + Cardinality(Threads)
           /\ \A t, u \in Threads : t # u => readers[t].new_count # readers[u].new_count


(* no sample of the deque is older than the age ceiling at time t *)
AllWithin(dq, t) ==
    \A i \in 1..Len(dq) : dq[i].timestamp >= t - MAX_WINDOW_SECONDS * Res

(* C30: when a record_endpoint_latency call completes, also with several
   threads recording, neither the deque of its route nor the global deque
   holds a sample stamped more than MAX_WINDOW_SECONDS before the time of the
   pruning of that call. *)
C30_AgeBoundOnAppend ==
    [][(ret'.op = "record_endpoint_latency")
        => /\ AllWithin(global_samples', now)
           /\ AllWithin(Get(route_samples', ret'.id, <<>>), now)]_vars


(* the sum of a list of numbers *)
RECURSIVE SumOf(_)
SumOf(s) == IF s = <<>> THEN 0 ELSE s[1] + SumOf(Tail(s))

(* the call of execute_with_retry ends with this step *)
RetryEnds == executing.pc # "idle" /\ executing'.pc = "idle"

(* C31: execute_with_retry(max_retries) ends, and when it ends it has made
   at most max_retries attempts; every attempt before the last failed with
   'database is locked'; rows fetched by the last attempt are returned, an
   error of the last attempt is raised, a 'database is locked' one only
   after max_retries attempts; and it has slept 0.1 * 2^k s after the k-th
   failed attempt (k = 0, 1, ...), which is the time the call took. *)
C31_BoundedRetry ==
    /\ [][RetryEnds /\ ret'.result.tried # <<>> =>
            LET r == ret'.result
                n == Len(r.tried)
                last == r.tried[n]
                locked == Raised("OperationalError", LOCKED)
            IN  /\ n <= ret'.value
                /\ \A k \in 1..(n - 1) : r.tried[k] = locked
                /\ r.outcome = last
                /\ ret'.outcome = (IF last.type = "rows" THEN "ok" ELSE "raise")
                /\ last = locked => n = ret'.value
                /\ Len(r.slept) = (IF last = locked THEN n ELSE n - 1)
                /\ \A k \in 1..Len(r.slept) : r.slept[k] = 2 ^ (k - 1)
                /\ 10 * now' + executing'.frac = r.began + Res * SumOf(r.slept)]_vars
    /\ (executing.pc # "idle") ~> (executing.pc = "idle")

(* three attempts met a locked database, the call slept 0.1, 0.2 and 0.4 s
   and raised the error *)
C31_Witness ==
    /\ ret.op = "execute_with_retry"
    /\ ret.outcome = "raise"
    /\ ret.value = 3
    /\ ret.result.slept = <<1, 2, 4>>
    /\ ret.result.outcome = Raised("OperationalError", LOCKED)


(* the thread is at the reload of the video list: the scan of video_dir and,
   on the database backend, the reads and writes of the videos table *)
Scanning(t) == readers[t].pc = "reload" /\ readers[t].cache_key = "video_list"

(* C32: a thread that scans the directory or calls the backend for the
   reconciliation of the video list does not hold the VideoCache lock, so a
   thread that waits in get_ratings meanwhile can take it. *)
C32_ScanOutsideLock ==
    \A t \in Threads :
        Scanning(t)
            => /\ _lock # t
               /\ \A u \in Threads \ {t} :
                     (readers[u].pc = "wait" /\ readers[u].cache_key = "ratings")
                         => CanAcquire(_lock, u)


(* C33: with no invalidation between them, two consecutive runs of
   _ensure_videos_in_database are at least video_list_ttl seconds apart. *)
C33_ReconcileOncePerTtl ==
    Len(ensured) = 2 => ensured[2] - ensured[1] >= video_list_ttl * Res


(* the operations that invalidate explicitly *)
ExplicitInvalidations ==
    {"invalidate_ratings", "invalidate_views", "invalidate_tags", "invalidate_favorites",
     "invalidate_video_list", "invalidate_popular_tags", "refresh_all", "get"}

(* the step is a read of the category, through its getter or through get *)
ReadOf(c) ==
    \/ ret'.op = (IF c = "popular_tags" THEN "get_popular_tags"
                  ELSE IF c = "video_list" THEN "get_video_list"
                  ELSE IF c = "ratings" THEN "get_ratings"
                  ELSE IF c = "views" THEN "get_views"
                  ELSE IF c = "tags" THEN "get_tags"
                  ELSE "get_favorites")
    \/ ret'.op = "get" /\ Getter(ret'.id) = c

(* the category holds in memory what the backend holds *)
Reloaded(c) ==
    CASE c = "ratings" -> _ratings' = LoadRatings
      [] c = "views" -> _views' = LoadViews
      [] c = "tags" -> TagsValue(_tags', heap') = LoadTags
      [] c = "favorites" -> _favorites' \in LoadFavorites
      [] c = "video_list" -> _video_list' \in LoadVideoList
      [] c = "popular_tags" -> _popular_tags' \in PopularRankings(LoadTags)

(* C34: in every step the last_refresh of every category stays or grows,
   or it becomes 0 in an explicit invalidation; and a read of a category
   whose last_refresh is 0 loads the category from the backend and sets its
   last_refresh to the time of the read. *)
C34_LastRefreshMonotonic ==
    [][\A c \in Categories :
          /\ \/ _last_refresh'[c] >= _last_refresh[c]
             \/ _last_refresh'[c] = 0 /\ ret'.op \in ExplicitInvalidations
          /\ (_last_refresh[c] = 0 /\ ReadOf(c))
                => (_last_refresh'[c] = now /\ Reloaded(c))]_vars

(* the ratings were invalidated, read again after the time had moved on,
   and the views have been invalidated since *)
C34_Witness ==
    /\ ret.op = "invalidate_views"
    /\ _last_refresh["views"] = 0
    /\ _last_refresh["ratings"] > StartTime
    /\ _ratings = store_ratings


(* the ids that are in exactly one of the two sets *)
Flipped(S, T) == (S \ T) \cup (T \ S)

(* C35: when two POST /favorite requests for different ids that came in on
   the same favorites have both been answered, the backend holds those
   favorites with the two ids flipped, and so does the next get_favorites. *)
C35_BothTogglesTakeEffect ==
    \A t, u \in Threads :
        (/\ readers[t].pc = "toggled"
         /\ readers[u].pc = "toggled"
         /\ readers[t].filename # readers[u].filename
         /\ readers[t].before = readers[u].before)
            => /\ FavoriteIds
                    = Flipped(readers[t].before, {readers[t].filename, readers[u].filename})
               /\ \A favorites \in NextReadFavorites :
                     Range(favorites) = FavoriteIds


(* C36: on the flat-file backend every record that get_all_video_data or the
   ranking of the related videos returns carries the rating and the view
   count last written for its file, also when the file had been listed
   before the write. *)
C36_ListingsReportWrites ==
    [][(/\ ret'.op \in {"get_all_video_data", "get_related_videos_optimized"}
        /\ ret'.outcome = "ok"
        /\ ~use_database)
        => \A i \in 1..Len(ret'.result) :
              /\ ret'.result[i].rating = Get(store_ratings, ret'.result[i].filename, 0)
              /\ ret'.result[i].views = Get(store_views, ret'.result[i].filename, 0)]_vars


(* C37: get(key, force_refresh=True) with a key that addresses a category
   ('video_list', 'ratings', 'views', 'tags', 'favorites', 'tags_<file>',
   'views_<file>', 'rating_<file>') loads that category from the backend
   before it returns: the category is stamped with the time of the call and
   holds what the backend holds. *)
C37_ForceRefreshReloads ==
    [][(ret'.op = "get" /\ ret'.value = TRUE /\ Getter(ret'.id) # "none")
        => /\ ret'.result.reloaded
           /\ _last_refresh'[Getter(ret'.id)] = now
           /\ Reloaded(Getter(ret'.id))]_vars


(* the latest call of is_allowed(ip) was made at time t and was denied:
   it left the list as it is now, and t is not in it *)
DeniedAt(ip, t) ==
    /\ burst[ip].last = t
    /\ Len(Get(requests, ip, <<>>)) >= max_requests
    /\ ~Contains(Get(requests, ip, <<>>), t)

(* C38: when is_allowed(ip) was denied at time t with reset_in = r and the
   next call for ip is made at time t + r, that call is allowed. *)
C38_RetryAfterSufficient ==
    [][\A ip \in Keys :
          (/\ ret'.op = "is_allowed"
           /\ ret'.id = ip
           /\ DeniedAt(ip, burst[ip].last)
           /\ now = burst[ip].last + ResetIn(Get(requests, ip, <<>>), burst[ip].last) * Res)
              => ret'.result.allowed]_vars

(* ---- the globals made on first use, two request threads ---- *)
NextSingleton ==
    \/ \E t \in Threads, getter \in Getters : singleton_call(t, getter)
    \/ \E t \in Threads : singleton_test(t)
    \/ \E t \in Threads : singleton_make(t)
    \/ \E t \in Threads : singleton_return(t)

SpecSingleton == InitMetrics /\ [][NextSingleton]_vars

(* C39: get_metrics() and get_rate_limiter() hand every caller one and the
   same instance, also when the first calls run concurrently: the instance a
   thread was returned is the one the module global names, so whatever the
   thread records in it is seen by every later caller. *)
C39_OneInstance ==
    \A t \in Threads, getter \in Getters :
        getting[t].got[getter] # "None" => getting[t].got[getter] = Global(getter)

(* the smallest and the largest sample, in hundredths of a millisecond *)
MinSample(values) == 100 * (CHOOSE x \in Range(values) : \A y \in Range(values) : x <= y)
MaxSample(values) == 100 * (CHOOSE x \in Range(values) : \A y \in Range(values) : y <= x)

(* C40: for every non-empty list of latency samples the percentiles returned
   by _get_latency_percentiles lie between the smallest and the largest sample
   and are in order: min <= p50 <= p95 <= p99 <= max. *)
C40_PercentilesWithinSamples ==
    (ret.op = "_get_latency_percentiles" /\ ret.value # <<>>)
    => LET p == ret.result
       IN  /\ MinSample(ret.value) <= p[1]
           /\ p[1] <= p[2]
           /\ p[2] <= p[3]
           /\ p[3] <= MaxSample(ret.value)

============================================================================
